---------------------------- MODULE Spec2Model ----------------------------
(***************************************************************************)
(* A model of the session / entitlement subsystem of the web application:  *)
(* the plan catalog and plan resolver, the subscription (entitlement)      *)
(* computation, the server-side session manager with its two stores, and   *)
(* the route handlers that use them.                                       *)
(*                                                                         *)
(* JavaScript values are modelled as follows.  A value of type             *)
(* `string | null' is a tuple of length at most one: <<>> is null and      *)
(* <<s>> is the string s.  Strings are TLA+ strings; their characters are  *)
(* reached with SubSeq.  NaN is the string "NaN".                          *)
(***************************************************************************)
EXTENDS Integers, Sequences, FiniteSets, TLC

VARIABLES
    arg,            \* the input of the pure function under study
    res,            \* <<>> before the function has been applied, then <<result>>
    isKVConfigured, \* TRUE: sessions live in the KV store; FALSE: in the in-memory Map
    now,            \* the server clock, in ms since the start of EpochDay
    ticks,          \* how many times the clock has advanced
    store,          \* the session store: session id -> [value, ex]
    nextId,         \* the next identifier uuidv4() hands out
    cookie,         \* the browser's session-id cookie: <<>> or <<id>>
    sent,           \* how many requests the browser has sent
    req,            \* per slot, the request in flight: position and locals
    last,           \* the response the browser received last
    userOrders,     \* the queries sent to the upstream's /user-orders so far
    destroyed,      \* history: the ids whose destroySession call has completed
    lookups,        \* the vendor lookups made by the auth request sent last
    modal           \* the auth modal of the page: its React state and its run

\* The variables of the browser's page, which the server's actions leave alone.
pureVars == <<arg, res, modal>>
mainVars == <<isKVConfigured, now, ticks, store, nextId, cookie, sent, req,
              last, userOrders, destroyed, lookups>>
vars == <<arg, res, isKVConfigured, now, ticks, store, nextId, cookie, sent,
          req, last, userOrders, destroyed, lookups, modal>>

Null == <<>>
Some(s) == <<s>>
NotRun == <<>>

\* The browser has at most two requests in flight (two tabs, or two fetches
\* of one page); a new request takes the first free slot.
Procs == {"r1", "r2"}

\* The locals of a request handler; pc = "idle" when the slot is free.
Idle ==
    [pc |-> "idle", route |-> "", sid |-> Null, session |-> Null, at |-> 0,
     user |-> Null, query |-> Null]

NoResponse ==
    [route |-> "none", status |-> 0, user |-> Null, sessionId |-> Null,
     body |-> [none |-> TRUE]]

\* The auth modal while it is not shown: const [isLoading, setIsLoading] =
\* useState(false), const [error, setError] = useState(''), no plan selected
\* and no handler running.
ModalClosed ==
    [isOpen |-> FALSE, isLoading |-> FALSE,
     error |-> [shape |-> "string", message |-> <<"">>, code |-> <<>>],
     selectedPlan |-> <<>>, pc |-> "idle", flow |-> "none", calls |-> <<>>,
     redirected |-> FALSE, runs |-> 0]

\* The server right after start-up with no request made: the state in which
\* the pure functions are studied.
ServerIdle ==
    /\ isKVConfigured = FALSE
    /\ now = 0
    /\ ticks = 0
    /\ store = <<>>
    /\ nextId = 1
    /\ cookie = Null
    /\ sent = 0
    /\ req = [p \in Procs |-> Idle]
    /\ last = NoResponse
    /\ userOrders = <<>>
    /\ destroyed = {}
    /\ lookups = <<>>

(***************************************************************************)
(* String primitives of the JavaScript runtime.                            *)
(***************************************************************************)
UpperCase == <<"A","B","C","D","E","F","G","H","I","J","K","L","M",
               "N","O","P","Q","R","S","T","U","V","W","X","Y","Z">>
LowerCase == <<"a","b","c","d","e","f","g","h","i","j","k","l","m",
               "n","o","p","q","r","s","t","u","v","w","x","y","z">>

CharAt(s, i) == SubSeq(s, i, i)

LowerChar(c) ==
    IF \E k \in 1..26 : UpperCase[k] = c
    THEN LowerCase[CHOOSE k \in 1..26 : UpperCase[k] = c]
    ELSE c

RECURSIVE LowerFrom(_, _)
LowerFrom(s, i) ==
    IF i > Len(s) THEN "" ELSE LowerChar(CharAt(s, i)) \o LowerFrom(s, i + 1)

\* String.prototype.toLowerCase
toLowerCase(s) == LowerFrom(s, 1)

\* String.prototype.includes
includes(s, pattern) ==
    \E i \in 1..(Len(s) - Len(pattern) + 1) :
        SubSeq(s, i, i + Len(pattern) - 1) = pattern

(***************************************************************************)
(* The plan catalog.                                                       *)
(***************************************************************************)
FreeId == "pln_basic--n5180oor"
EssentialsId == "pln_essentials-vb1k04zy"
AdvancedId == "pln_advanced-ni690fz3"
PortfolioId == "pln_portfolio-builder-fb6b0fzp"

PlanIds == {FreeId, EssentialsId, AdvancedId, PortfolioId}

PLANS ==
    [id \in PlanIds |->
        CASE id = FreeId ->
               [id |-> FreeId, name |-> "Free", tier |-> 0,
                suburbReports |-> 0, propertyReports |-> 0]
          [] id = EssentialsId ->
               [id |-> EssentialsId, name |-> "Essentials", tier |-> 1,
                suburbReports |-> 2, propertyReports |-> 5]
          [] id = AdvancedId ->
               [id |-> AdvancedId, name |-> "Advanced", tier |-> 2,
                suburbReports |-> 20, propertyReports |-> 30]
          [] id = PortfolioId ->
               [id |-> PortfolioId, name |-> "Portfolio Builder", tier |-> 3,
                suburbReports |-> -1, propertyReports |-> -1]]

(***************************************************************************)
(* The plan resolver, MemberstackClient.getBestPlanId.                     *)
(***************************************************************************)
hierarchy ==
    << [pattern |-> "portfolio",   mappedId |-> PortfolioId],
       [pattern |-> "office-team", mappedId |-> PortfolioId],
       [pattern |-> "team",        mappedId |-> PortfolioId],
       [pattern |-> "premium",     mappedId |-> PortfolioId],
       [pattern |-> "unlimited",   mappedId |-> PortfolioId],
       [pattern |-> "advanced",    mappedId |-> AdvancedId],
       [pattern |-> "pro",         mappedId |-> AdvancedId],
       [pattern |-> "essentials",  mappedId |-> EssentialsId],
       [pattern |-> "starter",     mappedId |-> EssentialsId],
       [pattern |-> "basic",       mappedId |-> FreeId],
       [pattern |-> "free",        mappedId |-> FreeId] >>

\* The mutant of planMatches: the substring test without toLowerCase.
planMatchesCaseSensitive(id, pattern) == includes(id, pattern)

\* id => id.toLowerCase().includes(pattern)
planMatches(id, pattern) == includes(toLowerCase(id), pattern)

\* activePlanIds.find(...): the first matching element, or null (undefined).
RECURSIVE findFrom(_, _, _)
findFrom(activePlanIds, pattern, i) ==
    IF i > Len(activePlanIds) THEN Null
    ELSE IF planMatches(activePlanIds[i], pattern) THEN Some(activePlanIds[i])
    ELSE findFrom(activePlanIds, pattern, i + 1)

\* The mutant of matchingPlan: only the first element is looked at.
matchingPlanFirstOnly(activePlanIds, pattern) ==
    IF Len(activePlanIds) > 0 /\ planMatches(activePlanIds[1], pattern)
    THEN Some(activePlanIds[1])
    ELSE Null

matchingPlan(activePlanIds, pattern) == findFrom(activePlanIds, pattern, 1)

\* JavaScript truthiness of a `string | null | undefined' value.
Truthy(o) == o # Null /\ o # Some("")

\* The mutant of firstPlanOrNull: an unmatched list defaults to the free plan.
firstPlanDefaultFree(activePlanIds) ==
    IF Len(activePlanIds) = 0 THEN Null ELSE Some(FreeId)

\* activePlanIds[0] || null
firstPlanOrNull(activePlanIds) ==
    IF Len(activePlanIds) > 0 /\ Truthy(Some(activePlanIds[1]))
    THEN Some(activePlanIds[1])
    ELSE Null

\* The for loop over the hierarchy, from rule k on.
RECURSIVE bestPlanFrom(_, _)
bestPlanFrom(activePlanIds, k) ==
    IF k > Len(hierarchy) THEN firstPlanOrNull(activePlanIds)
    ELSE IF Truthy(matchingPlan(activePlanIds, hierarchy[k].pattern))
         THEN Some(hierarchy[k].mappedId)
         ELSE bestPlanFrom(activePlanIds, k + 1)

getBestPlanId(activePlanIds) == bestPlanFrom(activePlanIds, 1)

(***************************************************************************)
(* The resolver on its own: a list of plan strings is built up and the     *)
(* resolver is applied to it.                                              *)
(***************************************************************************)
MaxPlans == 2

PlanStrings ==
    { "", "unrecognized-plan-id", "pln_gold",
      "xyz-essentials-123", "xyz-portfolio-456",
      "pln_basic--n5180oor", "pln_essentials-vb1k04zy",
      "pln_advanced-ni690fz3", "pln_portfolio-builder-fb6b0fzp",
      "Office-Team", "pln_TEAM", "Premium", "unlimited-x",
      "ADVANCED", "pln_pro", "Starter", "free" }

InitPlan ==
    /\ arg = <<>>
    /\ res = NotRun
    /\ modal = ModalClosed
    /\ ServerIdle

AddPlan(s) ==
    /\ res = NotRun
    /\ Len(arg) < MaxPlans
    /\ arg' = Append(arg, s)
    /\ UNCHANGED <<res, modal, mainVars>>

ResolvePlan ==
    /\ res = NotRun
    /\ res' = <<getBestPlanId(arg)>>
    /\ UNCHANGED <<arg, modal, mainVars>>

NextPlan ==
    \/ \E s \in PlanStrings : AddPlan(s)
    \/ ResolvePlan

SpecPlan == InitPlan /\ [][NextPlan]_vars

(***************************************************************************)
(* Claims about the plan resolver (checked under SpecPlan).                *)
(***************************************************************************)
PlanResolved == Len(res) = 1

\* The hierarchy as the claim states it: pattern, canonical id, in order.
ClaimedRules ==
    << <<"portfolio",   "pln_portfolio-builder-fb6b0fzp">>,
       <<"office-team", "pln_portfolio-builder-fb6b0fzp">>,
       <<"team",        "pln_portfolio-builder-fb6b0fzp">>,
       <<"premium",     "pln_portfolio-builder-fb6b0fzp">>,
       <<"unlimited",   "pln_portfolio-builder-fb6b0fzp">>,
       <<"advanced",    "pln_advanced-ni690fz3">>,
       <<"pro",         "pln_advanced-ni690fz3">>,
       <<"essentials",  "pln_essentials-vb1k04zy">>,
       <<"starter",     "pln_essentials-vb1k04zy">>,
       <<"basic",       "pln_basic--n5180oor">>,
       <<"free",        "pln_basic--n5180oor">> >>

TopTierRules == 1..5

\* Input string number i contains the pattern of rule k, ignoring case.
InputHitsRule(i, k) == includes(toLowerCase(arg[i]), ClaimedRules[k][1])

RuleHit(k) == \E i \in 1..Len(arg) : InputHitsRule(i, k)

NoRuleHit == \A k \in 1..Len(ClaimedRules) : ~RuleHit(k)

\* C4: for a non-empty input list the resolver returns the canonical id of
\* the first rule, in the fixed hierarchy order, whose pattern is a
\* case-insensitive substring of some input; so a top-tier match in one input
\* together with a lower-tier match in another input yields the
\* portfolio-builder id.
C4_PlanPrecedence ==
    (PlanResolved /\ Len(arg) > 0) =>
        /\ \A k \in 1..Len(ClaimedRules) :
              (RuleHit(k) /\ \A j \in 1..(k - 1) : ~RuleHit(j))
                  => res[1] = Some(ClaimedRules[k][2])
        /\ (\E i, j \in 1..Len(arg) :
               /\ i # j
               /\ \E k \in TopTierRules : InputHitsRule(i, k)
               /\ \E k \in (1..Len(ClaimedRules)) \ TopTierRules :
                     InputHitsRule(j, k))
              => res[1] = Some("pln_portfolio-builder-fb6b0fzp")

\* The resolver has answered the spec's example: an essentials string listed
\* before a portfolio string.
C4_Witness ==
    /\ PlanResolved
    /\ arg = <<"xyz-essentials-123", "xyz-portfolio-456">>
    /\ res[1] = Some("pln_portfolio-builder-fb6b0fzp")

\* C5 as stated: for a non-empty input list none of whose strings contains a
\* hierarchy pattern, the resolver returns the first input string unchanged.
C5_FallbackAsStated ==
    (PlanResolved /\ Len(arg) > 0 /\ NoRuleHit) => res[1] = Some(arg[1])

\* C5 as amended: for a non-empty input list none of whose strings contains a
\* hierarchy pattern, the resolver returns the first input string unchanged
\* when that string is not empty, and null when it is the empty string; it
\* never substitutes the free-tier id.
C5_Fallback ==
    (PlanResolved /\ Len(arg) > 0 /\ NoRuleHit) =>
        /\ res[1] = IF arg[1] = "" THEN Null ELSE Some(arg[1])
        /\ res[1] # Some("pln_basic--n5180oor")

\* The resolver has answered the spec's example of an unrecognized plan.
C5_Witness ==
    /\ PlanResolved
    /\ arg = <<"unrecognized-plan-id">>
    /\ res[1] = Some("unrecognized-plan-id")

\* The list arg in the order the permutation f of its positions gives.
Permuted(f) == [i \in 1..Len(arg) |-> arg[f[i]]]

\* C24 as stated: the resolver's result depends only on the set of input
\* strings: for every permutation of the input list it returns the value it
\* returns for the list.
C24_OrderIrrelevantAsStated ==
    PlanResolved =>
        \A f \in Permutations(1..Len(arg)) :
            getBestPlanId(Permuted(f)) = res[1]

\* C24 as amended: when some input string contains a hierarchy pattern, the
\* resolver returns the same value for every permutation of the input list;
\* when none does, it returns the first string of the list as ordered (null
\* when that string is empty), so that two orders of one list get different
\* results only in that case and only when their first strings differ.
C24_OrderIrrelevant ==
    PlanResolved =>
        \A f \in Permutations(1..Len(arg)) :
            LET other == getBestPlanId(Permuted(f))
            IN  /\ ~NoRuleHit => other = res[1]
                /\ (NoRuleHit /\ Len(arg) > 0) =>
                      other = IF Permuted(f)[1] = "" THEN Null
                              ELSE Some(Permuted(f)[1])
                /\ other # res[1] =>
                      NoRuleHit /\ Permuted(f)[1] # arg[1]

\* The resolver has answered for two unrecognized strings, and answers
\* otherwise for the same two in the other order.
C24_Witness ==
    /\ PlanResolved
    /\ arg = <<"pln_gold", "unrecognized-plan-id">>
    /\ res[1] = Some("pln_gold")
    /\ getBestPlanId(<<"unrecognized-plan-id", "pln_gold">>)
          = Some("unrecognized-plan-id")

\* The resolver has answered for an essentials string listed before a
\* portfolio string as it answers for the two in the other order.
OrderIrrelevantWhenMatched ==
    /\ PlanResolved
    /\ arg = <<"xyz-essentials-123", "xyz-portfolio-456">>
    /\ res[1] = getBestPlanId(<<"xyz-portfolio-456", "xyz-essentials-123">>)

(***************************************************************************)
(* Time.  An instant is a number of milliseconds since the instant the     *)
(* model starts at, which is 00:00:00.000 UTC of day EpochDay (counted     *)
(* from 1970-01-01): TLC's integers are 32 bits wide, so the epoch is      *)
(* moved.  The server's local time zone is taken to be UTC.                *)
(***************************************************************************)
EpochDay == 20119     \* 2025-01-31

MS_PER_DAY == 86400000

\* The civil date of a day number (the proleptic Gregorian calendar that
\* Date.prototype.getMonth and getFullYear use).
civilFromDays(days) ==
    LET z   == days + 719468
        era == z \div 146097
        doe == z - era * 146097
        yoe == (doe - (doe \div 1460) + (doe \div 36524) - (doe \div 146096)) \div 365
        doy == doe - (365 * yoe + (yoe \div 4) - (yoe \div 100))
        mp  == (5 * doy + 2) \div 153
        m   == IF mp < 10 THEN mp + 3 ELSE mp - 9
    IN  [year  |-> yoe + era * 400 + (IF m <= 2 THEN 1 ELSE 0),
         month |-> m,
         day   |-> doy - ((153 * mp + 2) \div 5) + 1]

\* now.getMonth(): 0 for January
getMonth(t) == civilFromDays(EpochDay + (t \div MS_PER_DAY)).month - 1

\* now.getFullYear()
getFullYear(t) == civilFromDays(EpochDay + (t \div MS_PER_DAY)).year

(***************************************************************************)
(* The entitlement computation of the subscription route.                  *)
(***************************************************************************)
\* The mutant of getPlanDetails: a null plan id is not treated as free.
getPlanDetailsNullIsPaid(planId) ==
    IF ~Truthy(planId) THEN PLANS[EssentialsId]
    ELSE IF planId[1] \in PlanIds THEN PLANS[planId[1]]
    ELSE PLANS[FreeId]

getPlanDetails(planId) ==
    IF ~Truthy(planId) THEN PLANS[FreeId]
    ELSE IF planId[1] \in PlanIds THEN PLANS[planId[1]]
    ELSE IF includes(planId[1], "portfolio") THEN PLANS[PortfolioId]
    ELSE IF includes(planId[1], "advanced") THEN PLANS[AdvancedId]
    ELSE IF includes(planId[1], "essentials") THEN PLANS[EssentialsId]
    ELSE PLANS[FreeId]

getPlanDescription(planName) ==
    CASE planName = "Portfolio Builder" ->
           "Unlimited access to all Microburbs features and reports"
      [] planName = "Advanced" ->
           "Extended access with 20 suburb reports and 30 property reports per month"
      [] planName = "Essentials" ->
           "Basic access with 2 suburb reports and 5 property reports per month"
      [] OTHER -> "Basic access to Microburbs features"

\* String.prototype.split with a one-character separator, from position i,
\* cur being the part read so far.
RECURSIVE splitFrom(_, _, _, _)
splitFrom(s, sep, i, cur) ==
    IF i > Len(s) THEN <<cur>>
    ELSE IF CharAt(s, i) = sep THEN <<cur>> \o splitFrom(s, sep, i + 1, "")
    ELSE splitFrom(s, sep, i + 1, cur \o CharAt(s, i))

split(s, sep) == splitFrom(s, sep, 1, "")

Digits == <<"0","1","2","3","4","5","6","7","8","9">>

IsDigit(c) == \E k \in 1..10 : Digits[k] = c

DigitValue(c) == (CHOOSE k \in 1..10 : Digits[k] = c) - 1

RECURSIVE digitsValue(_, _, _)
digitsValue(s, i, acc) ==
    IF i > Len(s) THEN acc
    ELSE digitsValue(s, i + 1, 10 * acc + DigitValue(CharAt(s, i)))

\* Number(s) for a string of decimal digits, the empty string (0) and any
\* string holding a character that is not a digit (NaN, written <<>>); the
\* strings of the model hold digits, '-' and letters other than 'e' and 'x'.
Number(s) ==
    IF \A i \in 1..Len(s) : IsDigit(CharAt(s, i))
    THEN <<digitsValue(s, 1, 0)>>
    ELSE <<>>

\* const [, month, year] = order.date.split('-').map(Number): a missing
\* element is undefined, which compares like NaN and is written <<>> too.
parseDate(date) ==
    LET parts == split(date, "-")
    IN  [month |-> IF Len(parts) >= 2 THEN Number(parts[2]) ELSE <<>>,
         year  |-> IF Len(parts) >= 3 THEN Number(parts[3]) ELSE <<>>]

\* The mutant of inCurrentMonth: the month compared without the `- 1'.
inCurrentMonthOffByOne(date, t) ==
    LET p == parseDate(date)
    IN  /\ p.year = <<getFullYear(t)>>
        /\ p.month # <<>>
        /\ p.month[1] = getMonth(t)

\* year === currentYear && month - 1 === currentMonth
inCurrentMonth(date, t) ==
    LET p == parseDate(date)
    IN  /\ p.year = <<getFullYear(t)>>
        /\ p.month # <<>>
        /\ p.month[1] - 1 = getMonth(t)

\* orders.forEach(...) from order i on, with the counts so far.  An order's
\* date is <<s>>, or <<>> when the record has no date: order.date.split then
\* throws, which ends the loop and leaves the counts as they are.
RECURSIVE countFrom(_, _, _, _)
countFrom(orders, i, t, used) ==
    IF i > Len(orders) THEN used
    ELSE IF orders[i].date = <<>> THEN used
    ELSE IF inCurrentMonth(orders[i].date[1], t)
         THEN IF orders[i].report_category = "Property"
              THEN countFrom(orders, i + 1, t,
                             [used EXCEPT !.property = @ + 1])
              ELSE IF orders[i].report_category = "Suburb"
                   THEN countFrom(orders, i + 1, t,
                                  [used EXCEPT !.suburb = @ + 1])
                   ELSE countFrom(orders, i + 1, t, used)
         ELSE countFrom(orders, i + 1, t, used)

NoUsage == [property |-> 0, suburb |-> 0]

\* The try block around the fetch of /user-orders.  An upstream outcome is
\* "network" (fetch throws), "status" (a response that is not ok), "notlist"
\* (a body that is not an array: orders.forEach throws) or "ok" (the body is
\* the list of orders).
usageFrom(upstream, t) ==
    IF upstream.kind = "ok" THEN countFrom(upstream.orders, 1, t, NoUsage)
    ELSE NoUsage

\* The mutant of reportsLeft: the difference with no floor at zero.
reportsLeftNoFloor(limit, used) ==
    IF limit = -1 THEN -1 ELSE limit - used

\* limit === -1 ? -1 : Math.max(0, limit - used)
reportsLeft(limit, used) ==
    IF limit = -1 THEN -1
    ELSE IF limit - used > 0 THEN limit - used ELSE 0

isUnlimited(planDetails) == planDetails.tier >= 3

\* The mutant of hasAdvancedFeatures: the threshold one tier lower.
hasAdvancedFeaturesFromEssentials(planDetails) == planDetails.tier >= 1

hasAdvancedFeatures(planDetails) == planDetails.tier >= 2

\* The body of the subscription route's 200 response for a user whose
\* session carries bestPlanId.
subscriptionData(bestPlanId, upstream, t) ==
    LET planDetails == getPlanDetails(bestPlanId)
        used == usageFrom(upstream, t)
        finder == IF isUnlimited(planDetails) \/ hasAdvancedFeatures(planDetails)
                  THEN "unlimited" ELSE "limited"
    IN  [plan |-> [id |-> planDetails.id,
                   name |-> planDetails.name,
                   tier |-> planDetails.tier,
                   description |-> getPlanDescription(planDetails.name)],
         usage |-> [propertyReportsUsed |-> used.property,
                    propertyReportsLimit |-> planDetails.propertyReports,
                    propertyReportsLeft |->
                        reportsLeft(planDetails.propertyReports, used.property),
                    suburbReportsUsed |-> used.suburb,
                    suburbReportsLimit |-> planDetails.suburbReports,
                    suburbReportsLeft |->
                        reportsLeft(planDetails.suburbReports, used.suburb)],
         features |-> [suburbFinder |-> finder,
                       propertyFinder |-> finder,
                       csvExport |-> hasAdvancedFeatures(planDetails),
                       prioritySupport |-> isUnlimited(planDetails)]]

(***************************************************************************)
(* The entitlement computation on its own: the upstream order list is      *)
(* built up, and the computation is applied for a plan id and an instant.  *)
(***************************************************************************)
MaxOrders == 3

OrderKinds ==
    { [report_category |-> "Property", date |-> <<"31-01-2025">>],
      [report_category |-> "Suburb",   date |-> <<"31-01-2025">>],
      [report_category |-> "Property", date |-> <<"01-02-2025">>],
      [report_category |-> "Suburb",   date |-> <<"28-02-2025">>],
      [report_category |-> "Region",   date |-> <<"01-02-2025">>],
      [report_category |-> "Property", date |-> <<"01-02-2024">>],
      [report_category |-> "Suburb",   date |-> <<"2025-02-01">>],
      [report_category |-> "Property", date |-> <<>>] }

SubPlanIds ==
    { Null, Some(FreeId), Some(EssentialsId), Some(AdvancedId),
      Some(PortfolioId), Some("unrecognized-plan-id") }

\* The last millisecond of 31 January and the first of 1 February 2025.
SubNows == { MS_PER_DAY - 1, MS_PER_DAY }

UpstreamKinds == { "ok", "network", "status", "notlist" }

InitSub ==
    /\ arg \in [bestPlanId : SubPlanIds, now : SubNows,
                upstream : [kind : UpstreamKinds, orders : {<<>>}]]
    /\ res = NotRun
    /\ modal = ModalClosed
    /\ ServerIdle

AddOrder(o) ==
    /\ res = NotRun
    /\ arg.upstream.kind \in {"ok", "notlist"}
    /\ Len(arg.upstream.orders) < MaxOrders
    /\ arg' = [arg EXCEPT !.upstream.orders = Append(@, o)]
    /\ UNCHANGED <<res, modal, mainVars>>

ComputeSubscription ==
    /\ res = NotRun
    /\ res' = <<subscriptionData(arg.bestPlanId, arg.upstream, arg.now)>>
    /\ UNCHANGED <<arg, modal, mainVars>>

NextSub ==
    \/ \E o \in OrderKinds : AddOrder(o)
    \/ ComputeSubscription

SpecSub == InitSub /\ [][NextSub]_vars

(***************************************************************************)
(* Claims about the entitlement computation (checked under SpecSub).       *)
(***************************************************************************)
SubscriptionComputed == Len(res) = 1

Max0(n) == IF n > 0 THEN n ELSE 0

LeftIsRight(limit, used, left) ==
    /\ limit = -1 => left = -1
    /\ limit # -1 => left = Max0(limit - used)
    /\ left < 0 => (left = -1 /\ limit = -1)
    /\ left <= limit

\* C9: for each resource kind the reported `left' is -1 when the plan limit
\* is -1, whatever the usage, and max(0, limit - used) otherwise; it is
\* never negative but for the -1 marker and never exceeds the limit.
C9_QuotaArithmetic ==
    SubscriptionComputed =>
        LET u == res[1].usage
            plan == getPlanDetails(arg.bestPlanId)
        IN  /\ u.propertyReportsLimit = plan.propertyReports
            /\ u.suburbReportsLimit = plan.suburbReports
            /\ LeftIsRight(u.propertyReportsLimit, u.propertyReportsUsed,
                           u.propertyReportsLeft)
            /\ LeftIsRight(u.suburbReportsLimit, u.suburbReportsUsed,
                           u.suburbReportsLeft)

\* Usage above the limit has been reported: three suburb reports used of two.
C9_Witness ==
    /\ SubscriptionComputed
    /\ res[1].usage.suburbReportsLimit = 2
    /\ res[1].usage.suburbReportsUsed = 3
    /\ res[1].usage.suburbReportsLeft = 0

\* The month and year that each date string of the model denotes, read as
\* day-month-year.
ClaimedMonthYear(date) ==
    CASE date = "31-01-2025" -> <<1, 2025>>
      [] date = "01-02-2025" -> <<2, 2025>>
      [] date = "28-02-2025" -> <<2, 2025>>
      [] date = "01-02-2024" -> <<2, 2024>>
      [] date = "2025-02-01" -> <<2, 1>>

\* The month and year of the instants of the model.
ClaimedMonthYearOfNow(t) ==
    IF t < MS_PER_DAY THEN <<1, 2025>> ELSE <<2, 2025>>

AllOrdersDated ==
    \A i \in 1..Len(arg.upstream.orders) : arg.upstream.orders[i].date # <<>>

OrdersCounted(category) ==
    Cardinality({ i \in 1..Len(arg.upstream.orders) :
        /\ arg.upstream.orders[i].report_category = category
        /\ ClaimedMonthYear(arg.upstream.orders[i].date[1])
               = ClaimedMonthYearOfNow(arg.now) })

\* C10: of a list of orders that each carry a date string, the ones counted
\* are exactly those whose month and year equal the month and year of now,
\* whatever the day; `Property' orders add to the property count only,
\* `Suburb' orders to the suburb count only, other categories to neither.
C10_MonthlyUsage ==
    (SubscriptionComputed /\ arg.upstream.kind = "ok" /\ AllOrdersDated) =>
        /\ res[1].usage.propertyReportsUsed = OrdersCounted("Property")
        /\ res[1].usage.suburbReportsUsed = OrdersCounted("Suburb")

\* On 1 February a Property order of 31 January, one of 1 February and a
\* Region order of 1 February have been counted as one property report.
C10_Witness ==
    /\ SubscriptionComputed
    /\ arg.now = MS_PER_DAY
    /\ arg.upstream =
         [kind |-> "ok",
          orders |-> << [report_category |-> "Property", date |-> <<"31-01-2025">>],
                        [report_category |-> "Property", date |-> <<"01-02-2025">>],
                        [report_category |-> "Region", date |-> <<"01-02-2025">>] >>]
    /\ res[1].usage.propertyReportsUsed = 1
    /\ res[1].usage.suburbReportsUsed = 0

\* Obtaining the usage failed: the fetch threw, the response was not ok or
\* not a list, or some order of the list carries no date to parse.
UsageFailure ==
    \/ arg.upstream.kind # "ok"
    \/ \E i \in 1..Len(arg.upstream.orders) :
          arg.upstream.orders[i].date = <<>>

\* C11: whenever obtaining the usage fails (network error, response that is
\* not ok, response that is not a list, or an order whose date cannot be
\* parsed) both usage counts are reported as zero; a failure part-way
\* through the order list leaves no partial count.
C11_FailureIsZeroUsage ==
    (SubscriptionComputed /\ UsageFailure) =>
        /\ res[1].usage.propertyReportsUsed = 0
        /\ res[1].usage.suburbReportsUsed = 0

\* The usage was computed from a list whose second order has no date, after
\* a first order of the current month.
C11_Witness ==
    /\ SubscriptionComputed
    /\ arg.now = MS_PER_DAY
    /\ arg.upstream.kind = "ok"
    /\ Len(arg.upstream.orders) = 2
    /\ arg.upstream.orders[1] =
          [report_category |-> "Property", date |-> <<"01-02-2025">>]
    /\ arg.upstream.orders[2].date = <<>>

\* C12: the feature flags are a function of the plan tier only: csvExport is
\* true and both finders are 'unlimited' exactly when tier >= 2, and
\* prioritySupport is true exactly when tier >= 3, whatever the usage counts
\* and the order history.
C12_FeaturesFromTier ==
    SubscriptionComputed =>
        LET tier == res[1].plan.tier
            f == res[1].features
        IN  /\ f.csvExport = (tier >= 2)
            /\ (f.suburbFinder = "unlimited") = (tier >= 2)
            /\ (f.propertyFinder = "unlimited") = (tier >= 2)
            /\ f.suburbFinder \in {"unlimited", "limited"}
            /\ f.propertyFinder \in {"unlimited", "limited"}
            /\ f.prioritySupport = (tier >= 3)

\* The flags of a tier-1 plan were computed next to a usage above both
\* limits.
C12_Witness ==
    /\ SubscriptionComputed
    /\ res[1].plan.tier = 1
    /\ res[1].usage.suburbReportsUsed = 3
    /\ res[1].features.csvExport = FALSE
    /\ res[1].features.suburbFinder = "limited"


(***************************************************************************)
(* The session store.                                                      *)
(***************************************************************************)
SESSION_DURATION_MS == 24 * 60 * 60 * 1000

SESSION_DURATION_SECONDS == 24 * 60 * 60

\* The day number of a civil date (the inverse of civilFromDays).
daysFromCivil(y, m, d) ==
    LET yy  == IF m <= 2 THEN y - 1 ELSE y
        era == yy \div 400
        yoe == yy - era * 400
        mp  == IF m > 2 THEN m - 3 ELSE m + 9
        doy == ((153 * mp + 2) \div 5) + d - 1
        doe == yoe * 365 + (yoe \div 4) - (yoe \div 100) + doy
    IN  era * 146097 + doe - 719468

\* Date.prototype.toISOString: the UTC calendar fields of an instant.
toISOString(t) ==
    LET c == civilFromDays(EpochDay + (t \div MS_PER_DAY))
    IN  [Y |-> c.year, M |-> c.month, D |-> c.day, ms |-> t % MS_PER_DAY]

\* new Date(isoString)
newDate(iso) ==
    (daysFromCivil(iso.Y, iso.M, iso.D) - EpochDay) * MS_PER_DAY + iso.ms

\* What sessionStore.set hands to kv.set: the session with its dates as ISO
\* strings.
serializable(session) ==
    [session EXCEPT !.createdAt = toISOString(@),
                    !.lastAccessed = toISOString(@),
                    !.expiresAt = toISOString(@)]

\* What sessionStore.get makes of the value kv.get returns.
parsed(data) ==
    [data EXCEPT !.createdAt = newDate(@),
                 !.lastAccessed = newDate(@),
                 !.expiresAt = newDate(@)]

\* A key of the KV store is gone once its time to live is over; the
\* in-memory Map keeps its entries until they are deleted.
present(st, id, t) ==
    /\ id \in DOMAIN st
    /\ st[id].ex # Null => t < st[id].ex[1]

\* sessionStore.set at instant t
storeSet(st, id, session, t) ==
    IF isKVConfigured
    THEN (id :> [value |-> serializable(session),
                 ex |-> Some(t + SESSION_DURATION_SECONDS * 1000)]) @@ st
    ELSE (id :> [value |-> session, ex |-> Null]) @@ st

\* sessionStore.get at instant t: <<>> for null, <<session>> otherwise
storeGet(st, id, t) ==
    IF ~present(st, id, t) THEN Null
    ELSE IF isKVConfigured THEN Some(parsed(st[id].value))
    ELSE Some(st[id].value)

\* The mutant of storeDelete: nothing is deleted.
storeDeleteNothing(st, id) == st

\* sessionStore.delete
storeDelete(st, id) == [i \in DOMAIN st \ {id} |-> st[i]]

(***************************************************************************)
(* The session manager.                                                    *)
(***************************************************************************)
\* The session createSession builds for user at instant t under identifier id.
newSession(id, user, t) ==
    [id |-> id,
     userEmail |-> user.email,
     memberstackId |-> user.memberstackId,
     firstName |-> user.firstName,
     lastName |-> user.lastName,
     activePlans |-> user.activePlans,
     bestPlanId |-> user.bestPlanId,
     createdAt |-> t,
     lastAccessed |-> t,
     expiresAt |-> t + SESSION_DURATION_MS,
     isActive |-> TRUE]

\* The mutant of sessionInvalid: the active flag is not looked at.
sessionInvalidIgnoresActive(session, t) ==
    session.expiresAt < t

\* getSession's test: !session.isActive || session.expiresAt < now
sessionInvalid(session, t) ==
    ~session.isActive \/ session.expiresAt < t

\* The user getCurrentUser makes of a session.
userOf(session) ==
    [id |-> session.id,
     email |-> session.userEmail,
     firstName |-> session.firstName,
     lastName |-> session.lastName,
     activePlans |-> session.activePlans,
     bestPlanId |-> session.bestPlanId,
     memberstackId |-> session.memberstackId]


(***************************************************************************)
(* The membership vendor and the users the auth routes build.              *)
(***************************************************************************)
\* The members the vendor knows: one with an active Advanced plan and a
\* cancelled one, one with no plan connection and no custom field.
Members ==
    { [id |-> "mem_ann",
       auth |-> [email |-> "ann@x.io"],
       customFields |-> [first |-> Some("Ann"), last |-> Some("Lee")],
       planConnections |->
           << [planId |-> "pln_portfolio-trial", status |-> "CANCELED"],
              [planId |-> AdvancedId, status |-> "ACTIVE"] >>],
      [id |-> "mem_bob",
       auth |-> [email |-> "bob@x.io"],
       customFields |-> [first |-> Null, last |-> Null],
       planConnections |-> << >>] }

\* The outcomes of getMember(email): null when the key is missing, the call
\* fails or nobody has the address, else the member with the address.
getMember(email) ==
    {Null} \cup {Some(m) : m \in {x \in Members : x.auth.email = email}}

\* The outcomes of getMemberById(memberId)
getMemberById(memberId) ==
    {Null} \cup {Some(m) : m \in {x \in Members : x.id = memberId}}

connectionIsActive(conn) == conn.status = "ACTIVE"

getActivePlanIds(member) ==
    LET active == SelectSeq(member.planConnections, connectionIsActive)
    IN  [i \in 1..Len(active) |-> active[i].planId]

\* a || b on values that are undefined (<<>>) or strings
OrElse(a, b) == IF Truthy(a) THEN a ELSE b

\* The request bodies tried on the login route ...
LoginBodies ==
    { [email |-> Null, memberstackToken |-> Some("tok"),
       memberstackId |-> Null, firstName |-> Null, lastName |-> Null],
      [email |-> Some("ann@x.io"), memberstackToken |-> Null,
       memberstackId |-> Some("mem_ann"), firstName |-> Null,
       lastName |-> Null],
      [email |-> Some("ann@x.io"), memberstackToken |-> Some("tok"),
       memberstackId |-> Some("mem_ann"), firstName |-> Some("Cy"),
       lastName |-> Some("Day")],
      [email |-> Some("bob@x.io"), memberstackToken |-> Some("tok"),
       memberstackId |-> Null, firstName |-> Some("Cy"),
       lastName |-> Some("Day")] }

\* ... and on the signup route.
SignupBodies ==
    { [email |-> Null, memberstackToken |-> Some("tok"),
       firstName |-> Null, lastName |-> Null, plan |-> Null],
      [email |-> Some("ann@x.io"), memberstackToken |-> Some("tok"),
       firstName |-> Some("Cy"), lastName |-> Some("Day"),
       plan |-> Some("pln_starter")],
      [email |-> Some("bob@x.io"), memberstackToken |-> Some("tok"),
       firstName |-> Null, lastName |-> Null, plan |-> Some(AdvancedId)],
      [email |-> Some("bob@x.io"), memberstackToken |-> Some("tok"),
       firstName |-> Null, lastName |-> Null, plan |-> Null] }

\* The body tried while requests overlap: a login that carries a member id.
OverlapLoginBodies ==
    {b \in LoginBodies :
        Truthy(b.memberstackToken) /\ Truthy(b.memberstackId)}

\* The mutant of provisionalUser: the user carries no plan at all.
provisionalUserNoPlan(body) ==
    [id |-> body.memberstackId[1],
     email |-> body.email[1],
     firstName |-> OrElse(body.firstName, Some(""))[1],
     lastName |-> OrElse(body.lastName, Some(""))[1],
     activePlans |-> <<>>,
     bestPlanId |-> Null,
     memberstackId |-> body.memberstackId[1]]

\* login route: the user made of client data when the vendor has no member
provisionalUser(body) ==
    [id |-> body.memberstackId[1],
     email |-> body.email[1],
     firstName |-> OrElse(body.firstName, Some(""))[1],
     lastName |-> OrElse(body.lastName, Some(""))[1],
     activePlans |-> <<FreeId>>,
     bestPlanId |-> Some(FreeId),
     memberstackId |-> body.memberstackId[1]]

\* login route: the user made of the vendor's member
memberUser(member, body) ==
    LET activePlans == getActivePlanIds(member)
    IN  [id |-> member.id,
         email |-> member.auth.email,
         firstName |->
             OrElse(member.customFields.first,
                    OrElse(body.firstName, Some("")))[1],
         lastName |->
             OrElse(member.customFields.last,
                    OrElse(body.lastName, Some("")))[1],
         activePlans |-> activePlans,
         bestPlanId |-> getBestPlanId(activePlans),
         memberstackId |-> member.id]

\* The mutant of temporaryUser: the id lacks the temp_ prefix.
temporaryUserNoPrefix(body, t) ==
    [id |-> ToString(t),
     email |-> body.email[1],
     firstName |-> OrElse(body.firstName, Some(""))[1],
     lastName |-> OrElse(body.lastName, Some(""))[1],
     activePlans |-> IF Truthy(body.plan) THEN <<body.plan[1]>> ELSE <<FreeId>>,
     bestPlanId |-> OrElse(body.plan, Some(FreeId)),
     memberstackId |-> ""]

\* signup route: the temporary user made when the vendor has no member yet
temporaryUser(body, t) ==
    [id |-> "temp_" \o ToString(t),
     email |-> body.email[1],
     firstName |-> OrElse(body.firstName, Some(""))[1],
     lastName |-> OrElse(body.lastName, Some(""))[1],
     activePlans |-> IF Truthy(body.plan) THEN <<body.plan[1]>> ELSE <<FreeId>>,
     bestPlanId |-> OrElse(body.plan, Some(FreeId)),
     memberstackId |-> ""]

\* signup route: the user made of the vendor's member
signedUpUser(member, body) ==
    LET activePlans == getActivePlanIds(member)
        bestPlanId  == getBestPlanId(activePlans)
    IN  [id |-> member.id,
         email |-> member.auth.email,
         firstName |->
             OrElse(member.customFields.first,
                    OrElse(body.firstName, Some("")))[1],
         lastName |->
             OrElse(member.customFields.last,
                    OrElse(body.lastName, Some("")))[1],
         activePlans |->
             IF Len(activePlans) > 0 THEN activePlans
             ELSE IF Truthy(body.plan) THEN <<body.plan[1]>> ELSE <<FreeId>>,
         bestPlanId |-> OrElse(bestPlanId, OrElse(body.plan, Some(FreeId))),
         memberstackId |-> member.id]

(***************************************************************************)
(* The report routes: what each forwards upstream as blur.                 *)
(***************************************************************************)
SuburbSections ==
    { "msp", "mrp", "yield", "volume", "vacancy", "growth", "growth_forecast",
      "growth_quadrants", "demographics", "income", "industry", "occupations",
      "ethnicity_ts", "population", "population_forecast", "amenity",
      "amenities", "schools_map", "schools_table", "schools_catchments",
      "noise", "base_map", "pocket", "streets", "near_sales", "das_map",
      "das_table", "zoning", "risk", "summary", "gpt_summary",
      "market_insights", "similar_suburbs", "insights" }

\* The sections of the property route whose upstream call carries blur ...
PropertyBlurSections ==
    { "info", "history", "sales", "rent", "yield", "risk", "demographics",
      "zoning", "development", "das_table", "das_map", "summary", "avm",
      "noise", "easements", "pocket", "neighbors", "nearby", "ethnicity",
      "income", "thresholds", "cma", "sal_insights" }

\* ... and those whose upstream call does not.
PropertyPlainSections ==
    { "image", "amenities", "schools", "base_map", "public_schools",
      "private_schools" }

RegionSections ==
    { "msp", "mrp", "yield", "volume", "vacancy", "growth", "demographics",
      "income", "population", "market_insights", "risk" }

ReportRoutes == {"suburb", "property", "region"}

\* The query strings tried: section absent, three named sections, an unknown
\* one; blur absent, empty, 'true' or 'false'.
QuerySections == {Null, Some("msp"), Some("info"), Some("image"),
                  Some("bogus")}

QueryBlurs == {Null, Some(""), Some("true"), Some("false")}

\* const blur = searchParams.get('blur') || 'false'
blurOf(query) == OrElse(query, Some("false"))[1]

\* The status of a report route's response and the blur its upstream calls
\* carried (<<>> when no call carried one).  found: the upstream knows the
\* suburb or property, the region has a suburb.
Forwarded(blur) == [status |-> 200, blur |-> Some(blur)]

Plain == [status |-> 200, blur |-> Null]

UnknownSection == [status |-> 400, blur |-> Null]

\* GET /api/suburb/[name]
suburbOutcome(section, query, found) ==
    IF Truthy(section)
    THEN IF section[1] \in SuburbSections THEN Forwarded(blurOf(query))
         ELSE UnknownSection
    ELSE [status |-> IF found THEN 200 ELSE 404, blur |-> Null]

\* GET /api/property/[gnafId]
propertyOutcome(section, query, found) ==
    IF Truthy(section)
    THEN IF section[1] \in PropertyBlurSections THEN Forwarded(blurOf(query))
         ELSE IF section[1] \in PropertyPlainSections THEN Plain
         ELSE UnknownSection
    ELSE [status |-> IF found THEN 200 ELSE 404,
          blur |-> Some(blurOf(query))]

\* GET /api/region/[name]
regionOutcome(section, query, found) ==
    IF ~found THEN [status |-> 404, blur |-> Null]
    ELSE IF Truthy(section)
    THEN IF section[1] \in RegionSections THEN Forwarded(blurOf(query))
         ELSE UnknownSection
    ELSE Plain

reportOutcome(route, section, query, found) ==
    CASE route = "suburb" -> suburbOutcome(section, query, found)
      [] route = "property" -> propertyOutcome(section, query, found)
      [] route = "region" -> regionOutcome(section, query, found)

(***************************************************************************)
(* The server as a state machine.  A request starts when the browser sends *)
(* it with the cookie it holds at that instant, advances by one step per   *)
(* store operation, and ends when its response reaches the browser,        *)
(* which then applies the response's cookie change.                        *)
(***************************************************************************)
MaxRequests == 3

MaxTicks == 2

\* The clock advances by a millisecond at any time, or by a whole session
\* lifetime while no request is in flight (a request is over long before).
ClockSteps == {1, SESSION_DURATION_MS}

uuidv4(n) == "uuid-" \o ToString(n)

\* What /api/user-orders answers to the subscription route.
Upstreams ==
    { [kind |-> "network", orders |-> <<>>],
      [kind |-> "ok",
       orders |-> << [report_category |-> "Property", date |-> <<"31-01-2025">>],
                     [report_category |-> "Suburb",   date |-> <<"31-01-2025">>],
                     [report_category |-> "Property", date |-> <<"01-02-2025">>],
                     [report_category |-> "Suburb",   date |-> <<"01-02-2025">>] >>] }

Response(route, status, user, sessionId, body) ==
    [route |-> route, status |-> status, user |-> user,
     sessionId |-> sessionId, body |-> body]

\* The mutant of NoSessionResponse: the refusal is a 403.
NoSessionResponseForbidden(route) ==
    IF route = "check"
    THEN Response(route, 200, Null, Null, [logged_in |-> FALSE])
    ELSE Response(route, 403, Null, Null,
                  [success |-> FALSE, error |-> "Not authenticated"])

\* The response of a route that found no session.
NoSessionResponse(route) ==
    IF route = "check"
    THEN Response(route, 200, Null, Null, [logged_in |-> FALSE])
    ELSE Response(route, 401, Null, Null,
                  [success |-> FALSE, error |-> "Not authenticated"])

\* GET /api/orders: what the browser may put in the query string.
OrdersQueries ==
    { [email |-> Null, report_category |-> Null],
      [email |-> Some("bob@x.io"), report_category |-> Null],
      [email |-> Null, report_category |-> Some("Suburb")] }

\* The query string of a request to a route: only /api/orders reads one.
Queries(route) ==
    IF route = "orders" THEN {Some(q) : q \in OrdersQueries} ELSE {Null}

\* SAMPLE_ORDERS: the report category and the date of each sample order.
SAMPLE_ORDERS ==
    << [report_category |-> "Suburb",   date |-> <<"15-01-2024">>],
       [report_category |-> "Property", date |-> <<"12-01-2024">>],
       [report_category |-> "Suburb",   date |-> <<"10-01-2024">>],
       [report_category |-> "Property", date |-> <<"08-01-2024">>],
       [report_category |-> "Suburb",   date |-> <<"05-01-2024">>] >>

\* reportCategory && reportCategory !== 'All'
categoryGiven(query) ==
    Truthy(query.report_category) /\ query.report_category # Some("All")

\* The query the orders route sends to /user-orders for the session's user:
\* email is searchParams.get('email') || user.email, appended when not empty.
ordersQuery(query, user) ==
    LET email == IF Truthy(query.email) THEN query.email ELSE Some(user.email)
    IN  [email |-> IF Truthy(email) THEN email ELSE Null,
         report_category |-> IF categoryGiven(query)
                             THEN query.report_category ELSE Null]

\* The query the subscription route sends to /user-orders.
usageQuery(user) == [email |-> Some(user.email), report_category |-> Null]

sampleOrder(o, user) ==
    [report_category |-> o.report_category, date |-> o.date,
     user_email |-> user.email]

RECURSIVE sampleFrom(_, _, _)
sampleFrom(i, query, user) ==
    IF i > Len(SAMPLE_ORDERS) THEN <<>>
    ELSE IF categoryGiven(query)
            /\ SAMPLE_ORDERS[i].report_category # query.report_category[1]
         THEN sampleFrom(i + 1, query, user)
         ELSE <<sampleOrder(SAMPLE_ORDERS[i], user)>>
                  \o sampleFrom(i + 1, query, user)

\* The body of the orders route's 200 response: the upstream's list, the
\* empty list for a JSON object that has no orders field ("notlist"), or
\* the sample orders when the fetch throws or the response is not ok.
ordersData(query, upstream, user) ==
    IF upstream.kind = "ok"
    THEN [success |-> TRUE, orders |-> upstream.orders, fallback |-> FALSE]
    ELSE IF upstream.kind = "notlist"
    THEN [success |-> TRUE, orders |-> <<>>, fallback |-> FALSE]
    ELSE [success |-> TRUE, orders |-> sampleFrom(1, query, user),
          fallback |-> TRUE]

\* The response of a route that found the session.
SessionResponse(route, session, query, upstream, t) ==
    LET user == userOf(session)
    IN  CASE route = "check" ->
                Response(route, 200, Null, Null, [logged_in |-> TRUE])
          [] route = "me" ->
                Response(route, 200, Some(user), Null, [success |-> TRUE])
          [] route = "subscription" ->
                Response(route, 200, Some(user), Null,
                         [success |-> TRUE,
                          subscription |->
                              subscriptionData(user.bestPlanId, upstream, t)])
          [] route = "orders" ->
                Response(route, 200, Some(user), Null,
                         ordersData(query[1], upstream, user))

\* What the route of a session's request asks /user-orders: <<>> when it
\* does not ask.
Asked(route, session, query) ==
    CASE route = "subscription" -> <<usageQuery(userOf(session))>>
      [] route = "orders" -> <<ordersQuery(query[1], userOf(session))>>
      [] OTHER -> <<>>

\* The mutant of StoreErrorResponse: the check route fails like the others.
StoreErrorResponseFails(route) ==
    Response(route, 500, Null, Null,
             [success |-> FALSE, error |-> "An error occurred"])

\* The response of a route whose session lookup raised an error.
StoreErrorResponse(route) ==
    IF route = "check"
    THEN Response(route, 200, Null, Null, [logged_in |-> FALSE])
    ELSE Response(route, 500, Null, Null,
                  [success |-> FALSE, error |-> "An error occurred"])

AuthFailure(route, status, error) ==
    Response(route, status, Null, Null, [success |-> FALSE, error |-> error])

\* With the in-memory store a session function runs from its first store
\* operation to its return without yielding to another request.
MidSessionPcs == {"gs_expire", "gs_refresh", "cs_set", "ds_mark", "ds_delete"}

MayRun(p) ==
    isKVConfigured \/ \A q \in Procs \ {p} : req[q].pc \notin MidSessionPcs

AllMayRun == \A p \in Procs : MayRun(p)

\* The browser sends a request on the first free slot.
MaySend(p) ==
    /\ req[p].pc = "idle"
    /\ p = "r2" => req["r1"].pc # "idle"
    /\ MayRun(p)
    /\ sent < MaxRequests

Init ==
    /\ arg = <<>>
    /\ res = NotRun
    /\ modal = ModalClosed
    /\ isKVConfigured \in BOOLEAN
    /\ now = 0
    /\ ticks = 0
    /\ store = <<>>
    /\ nextId = 1
    /\ cookie = Null
    /\ sent = 0
    /\ req = [p \in Procs |-> Idle]
    /\ last = NoResponse
    /\ userOrders = <<>>
    /\ destroyed = {}
    /\ lookups = <<>>

Tick(step) ==
    /\ ticks < MaxTicks
    /\ AllMayRun
    /\ step > 1 => \A p \in Procs : req[p].pc = "idle"
    /\ now' = now + step
    /\ ticks' = ticks + 1
    /\ UNCHANGED <<pureVars, userOrders, destroyed, lookups, isKVConfigured,
                   store,
                   nextId, cookie, sent, req, last>>

\* The mutant of Answer: the refusal also clears the cookie.
AnswerClearingCookie(response) ==
    /\ last' = response
    /\ cookie' = Null
    /\ UNCHANGED <<store, nextId, req>>

\* The auth routes answer at once, or go on to createSession(user).
Answer(response) ==
    /\ last' = response
    /\ UNCHANGED <<store, nextId, cookie, req>>

BeginCreate(p, route, user) ==
    /\ req' = [req EXCEPT ![p] =
                 [pc |-> IF cookie # Null THEN "cs_delete" ELSE "cs_new",
                  route |-> route, sid |-> cookie, session |-> Null,
                  at |-> 0, user |-> Some(user), query |-> Null]]
    /\ UNCHANGED <<store, nextId, cookie, last>>

\* The calls of the vendor's admin API, as the log of lookups records them:
\* the function called, its argument, and the id of the member it returned
\* (<<>> when it returned null).
returned(member) == IF member = Null THEN Null ELSE Some(member[1].id)

byIdLookup(memberId, member) ==
    [call |-> "getMemberById", key |-> memberId, member |-> returned(member)]

byEmailLookup(email, member) ==
    [call |-> "getMember", key |-> email, member |-> returned(member)]

\* The lookups the login route makes for body when the lookup by id, if
\* made, returns byId and the lookup by email, if made, returns byEmail.
loginLookups(body, byId, byEmail) ==
    (IF Truthy(body.memberstackId)
     THEN <<byIdLookup(body.memberstackId[1], byId)>> ELSE <<>>)
    \o (IF byId = Null
        THEN <<byEmailLookup(body.email[1], byEmail)>> ELSE <<>>)

\* POST /api/auth/login up to the call of createSession
Login(p, body) ==
    /\ MaySend(p)
    /\ sent' = sent + 1
    /\ UNCHANGED <<pureVars, userOrders, destroyed, isKVConfigured, now,
                   ticks>>
    /\ IF ~Truthy(body.email) \/ ~Truthy(body.memberstackToken)
       THEN /\ Answer(AuthFailure("login", 400,
                                  "Email and token are required"))
            /\ lookups' = <<>>
       ELSE \E byId \in IF Truthy(body.memberstackId)
                        THEN getMemberById(body.memberstackId[1])
                        ELSE {Null} :
            \E byEmail \in IF byId = Null THEN getMember(body.email[1])
                           ELSE {Null} :
              LET member == IF byId # Null THEN byId ELSE byEmail
              IN  /\ lookups' = loginLookups(body, byId, byEmail)
                  /\ IF member = Null /\ Truthy(body.memberstackId)
                     THEN BeginCreate(p, "login", provisionalUser(body))
                     ELSE IF member = Null
                     THEN Answer(AuthFailure("login", 404, "User not found"))
                     ELSE BeginCreate(p, "login",
                                      memberUser(member[1], body))

\* POST /api/auth/signup up to the call of createSession
Signup(p, body) ==
    /\ MaySend(p)
    /\ sent' = sent + 1
    /\ UNCHANGED <<pureVars, userOrders, destroyed, isKVConfigured, now,
                   ticks>>
    /\ IF ~Truthy(body.email) \/ ~Truthy(body.memberstackToken)
       THEN /\ Answer(AuthFailure("signup", 400,
                                  "Email and token are required"))
            /\ lookups' = <<>>
       ELSE \E member \in getMember(body.email[1]) :
              /\ lookups' = <<byEmailLookup(body.email[1], member)>>
              /\ IF member = Null
                 THEN BeginCreate(p, "signup", temporaryUser(body, now))
                 ELSE BeginCreate(p, "signup", signedUpUser(member[1], body))

\* createSession: await sessionStore.delete(existingSessionId)
CsDelete(p) ==
    /\ req[p].pc = "cs_delete"
    /\ MayRun(p)
    /\ store' = storeDelete(store, req[p].sid[1])
    /\ req' = [req EXCEPT ![p].pc = "cs_set"]
    /\ UNCHANGED <<pureVars, userOrders, destroyed, lookups, isKVConfigured,
                   now, ticks, nextId, cookie, sent, last>>

\* createSession: the new record is stored, the cookie set, and the route
\* answers with the user.
CsSet(p) ==
    /\ req[p].pc \in {"cs_new", "cs_set"}
    /\ MayRun(p)
    /\ LET sessionId == uuidv4(nextId)
           user == req[p].user[1]
       IN  /\ store' = storeSet(store, sessionId,
                                newSession(sessionId, user, now), now)
           /\ cookie' = Some(sessionId)
           /\ last' = Response(req[p].route, 200, Some(user), Some(sessionId),
                               [success |-> TRUE,
                                redirectUrl |-> "/members-area"])
    /\ nextId' = nextId + 1
    /\ req' = [req EXCEPT ![p] = Idle]
    /\ UNCHANGED <<pureVars, userOrders, destroyed, lookups, isKVConfigured,
                   now, ticks, sent>>


\* The routes that read the session: /api/auth/me (getCurrentUser),
\* /api/auth/check (isAuthenticated), /api/subscription and /api/orders
\* (getCurrentUser).
ReadRoutes == {"me", "check", "subscription", "orders"}

\* getSession: the request arrives; with no cookie it is answered at once.
Read(p, route, query) ==
    /\ MaySend(p)
    /\ sent' = sent + 1
    /\ IF cookie = Null
       THEN /\ last' = NoSessionResponse(route)
            /\ UNCHANGED req
       ELSE /\ req' = [req EXCEPT ![p] =
                         [pc |-> "gs_get", route |-> route, sid |-> cookie,
                          session |-> Null, at |-> 0, user |-> Null,
                          query |-> query]]
            /\ UNCHANGED last
    /\ UNCHANGED <<pureVars, userOrders, destroyed, lookups, isKVConfigured,
                   now, ticks, store, nextId, cookie>>

\* The mutant of GsGet: a cookie whose record is missing is kept.
GsGetKeepsCookie(p) ==
    /\ req[p].pc = "gs_get"
    /\ MayRun(p)
    /\ LET session == storeGet(store, req[p].sid[1], now)
       IN  IF session = Null
           THEN /\ last' = NoSessionResponse(req[p].route)
                /\ req' = [req EXCEPT ![p] = Idle]
                /\ UNCHANGED cookie
           ELSE IF sessionInvalid(session[1], now)
           THEN /\ req' = [req EXCEPT ![p].pc = "gs_expire",
                                      ![p].session = session,
                                      ![p].at = now]
                /\ UNCHANGED <<cookie, last>>
           ELSE /\ req' = [req EXCEPT ![p].pc = "gs_refresh",
                                      ![p].session =
                                          Some([session[1] EXCEPT
                                                  !.lastAccessed = now]),
                                      ![p].at = now]
                /\ UNCHANGED <<cookie, last>>
    /\ UNCHANGED <<pureVars, userOrders, destroyed, lookups, isKVConfigured,
                   now, ticks, sent, store, nextId>>

\* getSession: await sessionStore.get(sessionId), and the test on its result
GsGet(p) ==
    /\ req[p].pc = "gs_get"
    /\ MayRun(p)
    /\ LET session == storeGet(store, req[p].sid[1], now)
       IN  IF session = Null
           THEN /\ cookie' = Null
                /\ last' = NoSessionResponse(req[p].route)
                /\ req' = [req EXCEPT ![p] = Idle]
           ELSE IF sessionInvalid(session[1], now)
           THEN /\ req' = [req EXCEPT ![p].pc = "gs_expire",
                                      ![p].session = session,
                                      ![p].at = now]
                /\ UNCHANGED <<cookie, last>>
           ELSE /\ req' = [req EXCEPT ![p].pc = "gs_refresh",
                                      ![p].session =
                                          Some([session[1] EXCEPT
                                                  !.lastAccessed = now]),
                                      ![p].at = now]
                /\ UNCHANGED <<cookie, last>>
    /\ UNCHANGED <<pureVars, userOrders, destroyed, lookups, isKVConfigured,
                   now, ticks, sent, store, nextId>>

\* getSession: kv.get rejects; the error reaches the route's catch block.
GsGetFails(p) ==
    /\ req[p].pc = "gs_get"
    /\ isKVConfigured
    /\ last' = StoreErrorResponse(req[p].route)
    /\ req' = [req EXCEPT ![p] = Idle]
    /\ UNCHANGED <<pureVars, userOrders, destroyed, lookups, isKVConfigured,
                   now, ticks, sent, store, nextId, cookie>>

\* getSession: the invalid record is deleted, the cookie cleared, and the
\* route answers that there is no session.
GsExpire(p) ==
    /\ req[p].pc = "gs_expire"
    /\ MayRun(p)
    /\ store' = storeDelete(store, req[p].sid[1])
    /\ cookie' = Null
    /\ last' = NoSessionResponse(req[p].route)
    /\ req' = [req EXCEPT ![p] = Idle]
    /\ UNCHANGED <<pureVars, userOrders, destroyed, lookups, isKVConfigured,
                   now, ticks, sent, nextId>>

\* getSession: the refreshed record is written back and the route answers;
\* the subscription route first asks the upstream for the user's orders.
GsRefresh(p, upstream) ==
    /\ req[p].pc = "gs_refresh"
    /\ MayRun(p)
    /\ store' = storeSet(store, req[p].sid[1], req[p].session[1], now)
    /\ last' = SessionResponse(req[p].route, req[p].session[1], req[p].query,
                               upstream, now)
    /\ userOrders' = userOrders \o Asked(req[p].route, req[p].session[1],
                                         req[p].query)
    /\ req' = [req EXCEPT ![p] = Idle]
    /\ UNCHANGED <<pureVars, destroyed, lookups, isKVConfigured, now, ticks,
                   sent,
                   nextId, cookie>>

DestroyedResponse ==
    Response("logout", 200, Null, Null, [destroyed |-> TRUE])

\* The mutant of Logout: destroySession fails when there is no cookie.
LogoutFailsWithoutCookie(p) ==
    /\ MaySend(p)
    /\ sent' = sent + 1
    /\ IF cookie = Null
       THEN /\ last' = Response("logout", 500, Null, Null,
                                [success |-> FALSE])
            /\ UNCHANGED req
       ELSE /\ req' = [req EXCEPT ![p] =
                         [pc |-> "ds_get", route |-> "logout", sid |-> cookie,
                          session |-> Null, at |-> 0, user |-> Null,
                          query |-> Null]]
            /\ UNCHANGED last
    /\ UNCHANGED <<pureVars, userOrders, destroyed, lookups, isKVConfigured,
                   now, ticks, store, nextId, cookie>>

\* destroySession: the request arrives; with no cookie only the cookie is
\* cleared.
Logout(p) ==
    /\ MaySend(p)
    /\ sent' = sent + 1
    /\ IF cookie = Null
       THEN /\ last' = DestroyedResponse
            /\ UNCHANGED req
       ELSE /\ req' = [req EXCEPT ![p] =
                         [pc |-> "ds_get", route |-> "logout", sid |-> cookie,
                          session |-> Null, at |-> 0, user |-> Null,
                          query |-> Null]]
            /\ UNCHANGED last
    /\ UNCHANGED <<pureVars, userOrders, destroyed, lookups, isKVConfigured,
                   now, ticks, store, nextId, cookie>>

\* destroySession: await sessionStore.get(sessionId)
DsGet(p) ==
    /\ req[p].pc = "ds_get"
    /\ MayRun(p)
    /\ LET session == storeGet(store, req[p].sid[1], now)
       IN  IF session = Null
           THEN req' = [req EXCEPT ![p].pc = "ds_delete"]
           ELSE req' = [req EXCEPT ![p].pc = "ds_mark",
                                   ![p].session =
                                       Some([session[1] EXCEPT
                                               !.isActive = FALSE])]
    /\ UNCHANGED <<pureVars, userOrders, destroyed, lookups, isKVConfigured,
                   now, ticks, sent, store, nextId, cookie, last>>

\* destroySession: the record marked inactive is written back
DsMark(p) ==
    /\ req[p].pc = "ds_mark"
    /\ MayRun(p)
    /\ store' = storeSet(store, req[p].sid[1], req[p].session[1], now)
    /\ req' = [req EXCEPT ![p].pc = "ds_delete"]
    /\ UNCHANGED <<pureVars, userOrders, destroyed, lookups, isKVConfigured,
                   now, ticks, sent, nextId, cookie, last>>

\* destroySession: the record is deleted and the cookie cleared
DsDelete(p) ==
    /\ req[p].pc = "ds_delete"
    /\ MayRun(p)
    /\ store' = storeDelete(store, req[p].sid[1])
    /\ cookie' = Null
    /\ last' = DestroyedResponse
    /\ destroyed' = destroyed \cup {req[p].sid[1]}
    /\ req' = [req EXCEPT ![p] = Idle]
    /\ UNCHANGED <<pureVars, userOrders, lookups, isKVConfigured, now, ticks,
                   sent,
                   nextId>>

OverlapReadRoutes == {"me"}

OverlapUpstreams == {u \in Upstreams : u.kind = "network"}

Next ==
    \/ \E step \in ClockSteps : Tick(step)
    \/ \E p \in Procs, body \in OverlapLoginBodies : Login(p, body)
    \/ \E p \in Procs : CsDelete(p)
    \/ \E p \in Procs : CsSet(p)
    \/ \E p \in Procs, route \in OverlapReadRoutes : Read(p, route, Null)
    \/ \E p \in Procs : GsGet(p)
    \/ \E p \in Procs : GsExpire(p)
    \/ \E p \in Procs, upstream \in OverlapUpstreams : GsRefresh(p, upstream)
    \/ \E p \in Procs : Logout(p)
    \/ \E p \in Procs : DsGet(p)
    \/ \E p \in Procs : DsMark(p)
    \/ \E p \in Procs : DsDelete(p)

Spec == Init /\ [][Next]_vars

(***************************************************************************)
(* The same server used by a browser that sends its requests one after     *)
(* the other, with every request body.                                     *)
(***************************************************************************)
AuthReadRoutes == {"me", "subscription"}

NextAuth ==
    \/ \E step \in ClockSteps : Tick(step)
    \/ \E body \in LoginBodies : Login("r1", body)
    \/ \E body \in SignupBodies : Signup("r1", body)
    \/ CsDelete("r1")
    \/ CsSet("r1")
    \/ \E route \in AuthReadRoutes : Read("r1", route, Null)
    \/ GsGet("r1")
    \/ GsExpire("r1")
    \/ \E upstream \in Upstreams : GsRefresh("r1", upstream)
    \/ Logout("r1")
    \/ DsGet("r1")
    \/ DsMark("r1")
    \/ DsDelete("r1")

SpecAuth == Init /\ [][NextAuth]_vars

(***************************************************************************)
(* A browser that holds a session and logs in again, from tabs that may    *)
(* do so at once.                                                          *)
(***************************************************************************)
NextTabs ==
    \/ \E step \in ClockSteps : Tick(step)
    \/ \E p \in Procs, body \in OverlapLoginBodies : Login(p, body)
    \/ \E p \in Procs : CsDelete(p)
    \/ \E p \in Procs : CsSet(p)


(***************************************************************************)
(* The report routes on their own: the browser is anonymous, holds the     *)
(* cookie of a paid or of a free session, or holds a cookie whose record   *)
(* is gone; time passes and report requests are made.                      *)
(***************************************************************************)
\* GET of the suburb, property or region report route: the handler reads
\* only the query string and calls the upstream.
Report(route, section, query, found) ==
    /\ AllMayRun
    /\ LET outcome == reportOutcome(route, section, query, found)
       IN  last' = Response(route, outcome.status, Null, Null,
                            [blur |-> outcome.blur])
    /\ UNCHANGED <<pureVars, userOrders, destroyed, lookups, isKVConfigured,
                   now, ticks, store, nextId, cookie, sent, req>>

\* The member and the login body the sessions of these contexts come from.
PaidMember == CHOOSE m \in Members : m.id = "mem_ann"

ProvisionalBody == CHOOSE b \in OverlapLoginBodies : TRUE

\* The state right after a login created the first session for user.
LoggedIn(user, calls) ==
    /\ lookups = calls
    /\ store = storeSet(<<>>, uuidv4(1), newSession(uuidv4(1), user, 0), 0)
    /\ nextId = 2
    /\ cookie = Some(uuidv4(1))
    /\ sent = 1
    /\ last = Response("login", 200, Some(user), Some(uuidv4(1)),
                       [success |-> TRUE, redirectUrl |-> "/members-area"])

InitReport ==
    /\ arg = <<>>
    /\ res = NotRun
    /\ modal = ModalClosed
    /\ isKVConfigured \in BOOLEAN
    /\ now = 0
    /\ ticks = 0
    /\ req = [p \in Procs |-> Idle]
    /\ userOrders = <<>>
    /\ destroyed = {}
    /\ \/ store = <<>> /\ nextId = 1 /\ cookie = Null /\ sent = 0
          /\ last = NoResponse /\ lookups = <<>>
       \/ LoggedIn(memberUser(PaidMember, ProvisionalBody),
                   loginLookups(ProvisionalBody, Some(PaidMember), Null))
       \/ LoggedIn(provisionalUser(ProvisionalBody),
                   loginLookups(ProvisionalBody, Null, Null))

NextReport ==
    \/ \E step \in ClockSteps : Tick(step)
    \/ \E route \in ReportRoutes, section \in QuerySections,
          query \in QueryBlurs, found \in BOOLEAN :
             Report(route, section, query, found)

SpecReport == InitReport /\ [][NextReport]_vars

InitTabs == InitReport /\ cookie # Null

SpecTabs == InitTabs /\ [][NextTabs]_vars

(***************************************************************************)
(* The login and signup routes on their own, from the same three contexts: *)
(* every request body, one request at a time.                              *)
(***************************************************************************)
NextEntry ==
    \/ \E step \in ClockSteps : Tick(step)
    \/ \E body \in LoginBodies : Login("r1", body)
    \/ \E body \in SignupBodies : Signup("r1", body)
    \/ CsDelete("r1")
    \/ CsSet("r1")

SpecEntry == InitReport /\ [][NextEntry]_vars

(***************************************************************************)
(* The login route on its own, from the same three contexts, with bodies   *)
(* whose member id and email name different members, or no member.         *)
(***************************************************************************)
IdLoginBodies ==
    { [email |-> Some("bob@x.io"), memberstackToken |-> Some("tok"),
       memberstackId |-> Some("mem_ann"), firstName |-> Null,
       lastName |-> Some("Day")],
      [email |-> Some("bob@x.io"), memberstackToken |-> Some("tok"),
       memberstackId |-> Some("mem_zed"), firstName |-> Some("Zed"),
       lastName |-> Null],
      [email |-> Some("zed@x.io"), memberstackToken |-> Some("tok"),
       memberstackId |-> Some("mem_zed"), firstName |-> Null,
       lastName |-> Null] }

AllLoginBodies == LoginBodies \cup IdLoginBodies

NextLogin ==
    \/ \E step \in ClockSteps : Tick(step)
    \/ \E body \in AllLoginBodies : Login("r1", body)
    \/ CsDelete("r1")
    \/ CsSet("r1")

SpecLogin == InitReport /\ [][NextLogin]_vars

(***************************************************************************)
(* The routes that read the session, from the same three contexts: every   *)
(* route with every query string, the store lookup that may fail, and      *)
(* logout, with requests that overlap.                                     *)
(***************************************************************************)
NextRead ==
    \/ \E step \in ClockSteps : Tick(step)
    \/ \E p \in Procs, route \in ReadRoutes :
          \E query \in Queries(route) : Read(p, route, query)
    \/ \E p \in Procs : GsGet(p)
    \/ \E p \in Procs : GsGetFails(p)
    \/ \E p \in Procs : GsExpire(p)
    \/ \E p \in Procs, upstream \in Upstreams : GsRefresh(p, upstream)
    \/ \E p \in Procs : Logout(p)
    \/ \E p \in Procs : DsGet(p)
    \/ \E p \in Procs : DsMark(p)
    \/ \E p \in Procs : DsDelete(p)

SpecRead == InitReport /\ [][NextRead]_vars


(***************************************************************************)
(* Claims about the session manager (C1 and C3 checked under Spec, C2      *)
(* under SpecAuth).                                                        *)
(***************************************************************************)
\* The record the request in slot p finds for its cookie: <<>> when none.
Found(p) == storeGet(store, req[p].sid[1], now)

\* The step GsGet(p) decided that getSession returns the session.
ReturnsSession(p) == req[p].pc = "gs_refresh"

\* C1: getSession returns a session record if and only if the
\* request's cookie references a stored record whose isActive flag is true
\* and whose expiresAt is strictly after the current time; at the instant
\* now = expiresAt it returns none.
C1_ValidIffBeforeExpiry ==
    [][\A p \in Procs :
         GsGet(p) =>
            (ReturnsSession(p)' <=>
                /\ Found(p) # Null
                /\ Found(p)[1].isActive
                /\ now < Found(p)[1].expiresAt)]_vars

\* A session is returned at the very instant it expires.
C1_Witness ==
    \E p \in Procs :
        /\ ReturnsSession(p)
        /\ req[p].session[1].isActive
        /\ req[p].at = req[p].session[1].expiresAt

\* The record of identifier id is in the store st at instant t and valid.
validStored(st, id, t) ==
    /\ storeGet(st, id, t) # Null
    /\ ~sessionInvalid(storeGet(st, id, t)[1], t)

\* The browser's last response is that of a createSession call.
LastCreated == last.route \in {"login", "signup"} /\ last.sessionId # Null

\* C2: when a createSession call completes that the browser made after its
\* previous createSession call had completed, whatever the cookie held
\* before the two calls, the cookie holds the second call's identifier, the
\* record of the first call's identifier is gone from the store, and exactly
\* one valid record, the second call's, is in the store.
C2_SecondLoginReplacesFirst ==
    [][( /\ CsSet("r1")
         /\ LastCreated
         /\ req["r1"].sid = last.sessionId )
       => LET first  == last.sessionId[1]
              second == last'.sessionId[1]
          IN  /\ second # first
              /\ cookie' = Some(second)
              /\ first \notin DOMAIN store'
              /\ {id \in DOMAIN store' : validStored(store', id, now')}
                     = {second}]_vars

\* Two createSession calls were made one after the other, and nothing else.
C2_Witness ==
    /\ sent = 2
    /\ ticks = 0
    /\ \A p \in Procs : req[p].pc = "idle"
    /\ LastCreated
    /\ last.sessionId = Some(uuidv4(2))
    /\ cookie = Some(uuidv4(2))
    /\ uuidv4(1) \notin DOMAIN store
    /\ validStored(store, uuidv4(2), now)

\* C3: getSession finding a record whose expiresAt is before the current
\* time returns none whatever the record's isActive flag, and so does it
\* finding a record whose isActive flag is false; it then deletes the record
\* from the store, clears the cookie and the route answers as without
\* session.
C3_InvalidRecordRemoved ==
    [][\A p \in Procs :
         /\ ( /\ GsGet(p)
              /\ Found(p) # Null
              /\ Found(p)[1].expiresAt < now \/ ~Found(p)[1].isActive )
            => req'[p].pc = "gs_expire"
         /\ GsExpire(p) =>
               /\ req[p].sid[1] \notin DOMAIN store'
               /\ cookie' = Null
               /\ last' = NoSessionResponse(req[p].route)
               /\ req'[p].pc = "idle"]_vars

\* getSession found an expired record whose isActive flag is true.
C3_Witness ==
    \E p \in Procs :
        /\ req[p].pc = "gs_expire"
        /\ req[p].session[1].isActive
        /\ req[p].session[1].expiresAt < req[p].at

\* getSession found an unexpired record whose isActive flag is false.
InactiveRecordFound ==
    \E p \in Procs :
        /\ req[p].pc = "gs_expire"
        /\ ~req[p].session[1].isActive
        /\ req[p].at < req[p].session[1].expiresAt

(***************************************************************************)
(* Claims about the routes that read the session (checked under SpecRead). *)
(***************************************************************************)
\* The routes that refuse a request without session.
ProtectedRoutes == {"me", "subscription", "orders"}

NotAuthenticated(route) ==
    Response(route, 401, Null, Null,
             [success |-> FALSE, error |-> "Not authenticated"])

\* The step is the one in which the request in slot p is answered.
Responds(p) == req[p].pc # "idle" /\ req'[p].pc = "idle"

\* The step is the one in which getSession returns none to the request in
\* slot p: the record is missing, or it was found invalid and is deleted.
YieldsNone(p) == (GsGet(p) /\ Found(p) = Null) \/ GsExpire(p)

\* C13: the current-session, subscription and orders routes answer 401 with
\* {success: false, error: 'Not authenticated'} exactly when getSession
\* yields no session (no cookie, missing, inactive or expired record), and
\* then send nothing to the upstream; with a valid session they never
\* answer 401.
C13_UnauthenticatedIs401 ==
    [][\A p \in Procs :
         /\ \A route \in ProtectedRoutes :
              ( /\ cookie = Null
                /\ \E query \in Queries(route) : Read(p, route, query) )
              => /\ last' = NotAuthenticated(route)
                 /\ userOrders' = userOrders
         /\ ( Responds(p) /\ req[p].route \in ProtectedRoutes )
              => /\ YieldsNone(p) <=> last'.status = 401
                 /\ YieldsNone(p) =>
                       /\ last' = NotAuthenticated(req[p].route)
                       /\ userOrders' = userOrders
                 /\ (\E upstream \in Upstreams : GsRefresh(p, upstream))
                       => last'.status = 200]_vars

\* With the in-memory store, the subscription route refused the second
\* request of a browser whose session had expired, and asked the upstream
\* nothing.
C13_Witness ==
    /\ ~isKVConfigured
    /\ nextId = 2
    /\ sent = 2
    /\ last = NotAuthenticated("subscription")
    /\ uuidv4(1) \notin DOMAIN store
    /\ cookie = Null
    /\ userOrders = <<>>

\* A protected route is refusing a request whose record is inactive.
InactiveRecordRefused ==
    \E p \in Procs :
        /\ req[p].pc = "gs_expire"
        /\ req[p].route \in ProtectedRoutes
        /\ ~req[p].session[1].isActive
        /\ req[p].at < req[p].session[1].expiresAt

\* What a route answers a request without session.
Unauthenticated(route) ==
    IF route = "check"
    THEN [route |-> "check", status |-> 200, user |-> Null,
          sessionId |-> Null, body |-> [logged_in |-> FALSE]]
    ELSE NotAuthenticated(route)

\* C17: getSession called with a cookie whose id has no record in the store
\* returns none and clears the cookie, without error and without creating
\* or changing any record of the store.
C17_DanglingCookieCleared ==
    [][\A p \in Procs :
         (GsGet(p) /\ Found(p) = Null) =>
            /\ cookie' = Null
            /\ store' = store
            /\ req'[p].pc = "idle"
            /\ last' = Unauthenticated(req[p].route)]_vars

\* With the KV store, the second request of a browser whose record had run
\* out of its time to live was refused and the cookie cleared.
C17_Witness ==
    /\ isKVConfigured
    /\ nextId = 2
    /\ sent = 2
    /\ last = NotAuthenticated("me")
    /\ cookie = Null
    /\ uuidv4(1) \in DOMAIN store
    /\ storeGet(store, uuidv4(1), now) = Null

CheckAnswer(b) ==
    [route |-> "check", status |-> 200, user |-> Null, sessionId |-> Null,
     body |-> [logged_in |-> b]]

\* C18: the auth-check route always answers 200 with {logged_in: b}, where b
\* is true exactly when getSession returns a session and false otherwise,
\* also when the store lookup raises an error.
C18_CheckAlways200 ==
    [][\A p \in Procs :
         /\ (cookie = Null /\ Read(p, "check", Null))
               => last' = CheckAnswer(FALSE)
         /\ (Responds(p) /\ req[p].route = "check")
               => last' = CheckAnswer(\E upstream \in Upstreams :
                                         GsRefresh(p, upstream))]_vars

\* The auth-check route answered logged_in = false to a browser whose
\* session is valid: the store lookup had raised an error.
C18_Witness ==
    /\ last = CheckAnswer(FALSE)
    /\ \A p \in Procs : req[p].pc = "idle"
    /\ cookie # Null
    /\ validStored(store, cookie[1], now)

(***************************************************************************)
(* Claims about requests that overlap (C19 checked under Spec, C20 under   *)
(* SpecTabs).                                                              *)
(***************************************************************************)
\* C19: however a getSession request and a destroySession request on the
\* same session id interleave, once destroySession has completed no record
\* of that id is in the store in any later state, and no getSession that
\* looks the id up later returns a session.
C19_DestroyedStaysGone ==
    [][/\ \A id \in destroyed' : id \notin DOMAIN store'
       /\ \A p \in Procs :
            (GsGet(p) /\ req[p].sid[1] \in destroyed)
               => ~ReturnsSession(p)']_vars

\* destroySession completed for the id of a getSession that had already
\* read the record and has yet to write it back.
C19_Witness ==
    \E p \in Procs :
        /\ req[p].pc = "gs_refresh"
        /\ req[p].sid[1] \in destroyed

\* The valid records of the store st at instant t.
validRecords(st, t) == {id \in DOMAIN st : validStored(st, id, t)}

\* C20: when the second of two createSession requests that presented the
\* same cookie value completes, at most one valid record stemming from
\* that cookie is in the store, and every valid record is the one the
\* browser's cookie references.
C20_TabsLeaveOneRecord ==
    [][\A p \in Procs :
         ( /\ CsSet(p)
           /\ \A q \in Procs \ {p} : req[q].pc = "idle"
           /\ req[p].sid = Some(uuidv4(1))
           /\ last.route = "login"
           /\ last.sessionId = Some(uuidv4(2)) )
         => /\ Cardinality(validRecords(store', now')) <= 1
            /\ validRecords(store', now') \subseteq {cookie'[1]}]_vars

\* Two createSession requests that presented the same cookie are in flight.
C20_Witness ==
    /\ \A p \in Procs : req[p].pc \in {"cs_delete", "cs_set"}
    /\ req["r1"].sid = Some(uuidv4(1))
    /\ req["r2"].sid = Some(uuidv4(1))

(***************************************************************************)
(* Claims about the login, signup and logout handlers (C14 and C15 checked *)
(* under SpecEntry, C16 under SpecAuth).                                   *)
(***************************************************************************)
Refused(route, status, error) ==
    [route |-> route, status |-> status, user |-> Null, sessionId |-> Null,
     body |-> [success |-> FALSE, error |-> error]]

\* The step is the arrival of a request to route in slot p.
Arrives(p, route) ==
    /\ sent' = sent + 1
    /\ \/ req'[p].route = route /\ req[p].pc = "idle"
       \/ req' = req /\ last'.route = route

\* The request body lacks the email or the token.
Incomplete(body) == ~Truthy(body.email) \/ ~Truthy(body.memberstackToken)

\* C14: the login route answers 400 exactly when email or memberstackToken
\* is missing, and 404 exactly when both are present, no memberstackId was
\* supplied and the lookup by email found no member; in both cases no
\* session is created and the store and the cookie are left as they were.
C14_LoginRefusals ==
    [][\A p \in Procs, body \in LoginBodies :
         (Arrives(p, "login") /\ Login(p, body)) =>
            LET answered == req' = req
            IN  /\ Incomplete(body) <=> (answered /\ last'.status = 400)
                /\ (answered /\ last'.status = 404)
                      => ~Incomplete(body) /\ ~Truthy(body.memberstackId)
                /\ (~Incomplete(body) /\ ~Truthy(body.memberstackId))
                      => \/ answered /\ last'.status = 404
                         \/ \E m \in getMember(body.email[1]) \ {Null} :
                               /\ req'[p].pc \in {"cs_delete", "cs_new"}
                               /\ req'[p].user = Some(memberUser(m[1], body))
                /\ (~Incomplete(body) /\ Truthy(body.memberstackId))
                      => ~answered
                /\ answered =>
                      /\ last' \in
                           { Refused("login", 400,
                                     "Email and token are required"),
                             Refused("login", 404, "User not found") }
                      /\ store' = store
                      /\ cookie' = cookie
                      /\ nextId' = nextId]_vars

\* The login route answered 404 to a browser that holds a session, and the
\* session is still there.
C14_Witness ==
    /\ last = Refused("login", 404, "User not found")
    /\ cookie = Some(uuidv4(1))
    /\ validStored(store, uuidv4(1), now)

\* The id is temp_ followed by something.
IsTempId(id) == Len(id) > 5 /\ SubSeq(id, 1, 5) = "temp_"

C16_LogoutIdempotent ==
    [][/\ (Logout("r1") /\ cookie = Null) =>
            /\ last' = DestroyedResponse
            /\ req' = req
            /\ store' = store
            /\ cookie' = Null
       /\ DsDelete("r1") =>
            /\ last' = DestroyedResponse
            /\ cookie' = Null
            /\ req["r1"].sid[1] \notin DOMAIN store'
       /\ (Logout("r1") /\ last = DestroyedResponse) =>
            /\ last' = DestroyedResponse
            /\ req' = req
            /\ store' = store
            /\ cookie' = cookie]_vars

\* destroySession was called by a browser that never had a cookie.
C16_Witness ==
    /\ sent = 1
    /\ last = DestroyedResponse
    /\ cookie = Null
    /\ store = <<>>

(***************************************************************************)
(* Claims about the subscription endpoint (checked under SpecAuth).        *)
(***************************************************************************)
SubscriptionAnswered == last.route = "subscription" /\ last.status = 200

\* C6: getBestPlanId of the empty list is null, and a session whose
\* bestPlanId is null is reported by the subscription endpoint as the free
\* catalog entry: tier 0, both limits 0, both remaining counts 0, csvExport
\* and prioritySupport false.
C6_NullPlanIsFree ==
    /\ getBestPlanId(<<>>) = Null
    /\ ( SubscriptionAnswered /\ last.user[1].bestPlanId = Null )
       => LET sub == last.body.subscription
          IN  /\ sub.plan.id = FreeId
              /\ sub.plan.name = PLANS[FreeId].name
              /\ sub.plan.tier = 0
              /\ sub.usage.suburbReportsLimit = 0
              /\ sub.usage.propertyReportsLimit = 0
              /\ sub.usage.suburbReportsLeft = 0
              /\ sub.usage.propertyReportsLeft = 0
              /\ sub.features.csvExport = FALSE
              /\ sub.features.prioritySupport = FALSE

\* The subscription endpoint answered for a session whose bestPlanId is null
\* and whose activePlans list is empty.
C6_Witness ==
    /\ SubscriptionAnswered
    /\ last.user[1].bestPlanId = Null
    /\ last.user[1].activePlans = <<>>

\* C8: for every valid session the plan the subscription endpoint
\* reports (id, name, tier, limits) is the catalog entry of the resolver's
\* result for the session's activePlans list, whichever route created the
\* session.
C8_PlanOfActivePlans ==
    SubscriptionAnswered
    => LET entry == getPlanDetails(getBestPlanId(last.user[1].activePlans))
           sub == last.body.subscription
       IN  /\ sub.plan.id = entry.id
           /\ sub.plan.name = entry.name
           /\ sub.plan.tier = entry.tier
           /\ sub.usage.suburbReportsLimit = entry.suburbReports
           /\ sub.usage.propertyReportsLimit = entry.propertyReports

(***************************************************************************)
(* Claim about the report routes (checked under SpecReport).               *)
(***************************************************************************)
\* The browser's cookie references a stored, valid session whose plan is a
\* paid one.
PaidSessionPresented ==
    /\ cookie # Null
    /\ validStored(store, cookie[1], now)
    /\ getPlanDetails(storeGet(store, cookie[1], now)[1].bestPlanId).tier >= 1

\* C7: a report route forwards blur = 'false' to the upstream only
\* for a request that carries a valid session whose plan gives paid access,
\* whatever the query string holds.
C7_BlurFromEntitlement ==
    [][\A route \in ReportRoutes, section \in QuerySections,
          query \in QueryBlurs, found \in BOOLEAN :
            ( /\ Report(route, section, query, found)
              /\ reportOutcome(route, section, query, found).blur
                     = Some("false") )
            => PaidSessionPresented]_vars

(***************************************************************************)
(* Claims about what a successful getSession writes (C21 checked under     *)
(* Spec, C22 under SpecRead).                                              *)
(***************************************************************************)
\* The session record stored under id, whatever its time to live.
recordOf(st, id) ==
    IF isKVConfigured THEN parsed(st[id].value) ELSE st[id].value

\* The step is the one in which getSession, having found the record valid,
\* writes it back and returns it to the request in slot p.
Succeeds(p) == req[p].pc = "gs_refresh" /\ req'[p].pc = "idle"

\* C21: a successful getSession changes only the lastAccessed field of the
\* record its cookie references, which it sets to the time it read as
\* current: the
\* record's other fields (id, identity, activePlans, bestPlanId, createdAt,
\* expiresAt, isActive), every other record of the store and the cookie are
\* as they were before.
C21_OnlyLastAccessedChanges ==
    [][\A p \in Procs :
         Succeeds(p) =>
            LET id == req[p].sid[1]
            IN  /\ cookie' = cookie
                /\ DOMAIN store' = DOMAIN store
                /\ \A other \in DOMAIN store \ {id} :
                      store'[other] = store[other]
                /\ id \in DOMAIN store
                      => recordOf(store', id) =
                            [recordOf(store, id) EXCEPT
                                !.lastAccessed = req[p].at]]_vars

\* getSession has found the record valid and is about to write it back,
\* while the record in the store has been marked inactive since.
C21_Witness ==
    \E p \in Procs :
        /\ req[p].pc = "gs_refresh"
        /\ req[p].sid[1] \in DOMAIN store
        /\ ~recordOf(store, req[p].sid[1]).isActive

\* C22: with the KV store, the deadline of every stored key is the expiresAt
\* of the record it holds, the fixed duration counted from the session's
\* creation; getSession's rewrite does not move it.
C22_DeadlineIsExpiresAt ==
    isKVConfigured =>
        \A id \in DOMAIN store :
            store[id].ex = Some(recordOf(store, id).expiresAt)

\* With the KV store, the current-session route has answered, a millisecond
\* or more after its creation, for a session whose record it rewrote.
C22_Witness ==
    /\ isKVConfigured
    /\ last.route = "me"
    /\ last.status = 200
    /\ cookie # Null
    /\ cookie[1] \in DOMAIN store
    /\ recordOf(store, cookie[1]).createdAt < recordOf(store, cookie[1]).lastAccessed

(***************************************************************************)
(* Claim about the member the login route builds the session from          *)
(* (checked under SpecLogin).                                              *)
(***************************************************************************)
\* The member the vendor holds under memberId.
MemberOf(memberId) == CHOOSE m \in Members : m.id = memberId

\* The plan ids of the member's ACTIVE plan connections, in order.
ActivePlansOf(m) ==
    LET idx == {i \in 1..Len(m.planConnections) :
                   m.planConnections[i].status = "ACTIVE"}
        nth(k) == CHOOSE i \in idx : Cardinality({j \in idx : j < i}) = k - 1
    IN  [k \in 1..Cardinality(idx) |-> m.planConnections[nth(k)].planId]

\* The user is the one of member m: its id, email and active plans.
BuiltFrom(user, m) ==
    /\ user.id = m.id
    /\ user.memberstackId = m.id
    /\ user.email = m.auth.email
    /\ user.activePlans = ActivePlansOf(m)

\* The user is made of the body's fields and carries the free plan only.
BuiltFromBody(user, body) ==
    /\ user.id = body.memberstackId[1]
    /\ user.memberstackId = body.memberstackId[1]
    /\ user.email = body.email[1]
    /\ user.firstName = (IF Truthy(body.firstName) THEN body.firstName[1]
                         ELSE "")
    /\ user.lastName = (IF Truthy(body.lastName) THEN body.lastName[1]
                        ELSE "")
    /\ user.activePlans = <<"pln_basic--n5180oor">>
    /\ user.bestPlanId = Some("pln_basic--n5180oor")

\* C23: in the login route with email and token present, a lookup by id is
\* made exactly when memberstackId is supplied; when it returns a member the
\* session is built from that member and no lookup by email is made;
\* otherwise the lookup by email is made and a member it returns is used;
\* when both return none and memberstackId was supplied, a session is
\* created from the client-supplied id, email and names with the free plan
\* only.
C23_LoginMemberResolution ==
    [][/\ \A body \in AllLoginBodies :
            ( /\ Arrives("r1", "login")
              /\ ~Incomplete(body)
              /\ Login("r1", body) ) =>
               LET supplied == Truthy(body.memberstackId)
                   first == lookups'[1]
                   final == lookups'[Len(lookups')]
                   creates == req'["r1"].pc \in {"cs_delete", "cs_new"}
                   user == req'["r1"].user[1]
               IN  /\ Len(lookups') \in {1, 2}
                   /\ supplied <=> first.call = "getMemberById"
                   /\ supplied => first.key = body.memberstackId[1]
                   /\ (supplied /\ first.member # Null) =>
                         /\ Len(lookups') = 1
                         /\ creates
                         /\ BuiltFrom(user, MemberOf(first.member[1]))
                   /\ (~supplied \/ first.member = Null) =>
                         /\ Len(lookups') = (IF supplied THEN 2 ELSE 1)
                         /\ final.call = "getMember"
                         /\ final.key = body.email[1]
                         /\ final.member # Null =>
                               /\ creates
                               /\ BuiltFrom(user, MemberOf(final.member[1]))
                         /\ (final.member = Null /\ supplied) =>
                               /\ creates
                               /\ BuiltFromBody(user, body)
                         /\ (final.member = Null /\ ~supplied) => ~creates
       /\ (CsSet("r1") /\ req["r1"].route = "login") =>
            LET user == req["r1"].user[1]
                session == recordOf(store', cookie'[1])
            IN  /\ session.userEmail = user.email
                /\ session.memberstackId = user.memberstackId
                /\ session.firstName = user.firstName
                /\ session.lastName = user.lastName
                /\ session.activePlans = user.activePlans
                /\ session.bestPlanId = user.bestPlanId
                /\ last'.user = Some(user)]_vars

\* A login naming a member by id that neither lookup found has been answered
\* with a session of the client's id and email and the free plan.
C23_Witness ==
    /\ last.route = "login"
    /\ last.status = 200
    /\ Len(lookups) = 2
    /\ lookups[1].member = Null
    /\ lookups[2].member = Null
    /\ last.user[1].id = "mem_ann"
    /\ last.user[1].email = "bob@x.io"
    /\ cookie # Null
    /\ recordOf(store, cookie[1]).activePlans = <<"pln_basic--n5180oor">>
    /\ recordOf(store, cookie[1]).bestPlanId = Some("pln_basic--n5180oor")

(***************************************************************************)
(* The client-side bridge to the vendor SDK.  A JavaScript value that the  *)
(* SDK hands over as an error is a string, a plain object or an Error:     *)
(* shape says which, message is the string itself or the value of the      *)
(* message property (<<>> when the object has none), code the value of the *)
(* code property.  An Error's message is not an enumerable key.            *)
(***************************************************************************)
JsString(text) == [shape |-> "string", message |-> Some(text), code |-> Null]

JsObject(message, code) ==
    [shape |-> "object", message |-> message, code |-> code]

JsError(text) == [shape |-> "Error", message |-> Some(text), code |-> Null]

\* JavaScript truthiness of such a value
JsTruthy(v) == v.shape = "string" => v.message # Some("")

\* error && typeof error === 'object'
IsObject(v) == v.shape \in {"object", "Error"}

\* Object.keys(error).length
KeyCount(v) ==
    (IF v.shape = "object" /\ v.message # Null THEN 1 ELSE 0)
    + (IF v.code # Null THEN 1 ELSE 0)

\* (error as { message?: string }).message: undefined on a string
messageOf(v) == IF IsObject(v) THEN v.message ELSE Null

\* What a bridge function returns.
Failed(error) ==
    [success |-> FALSE, error |-> Some(error), member |-> FALSE,
     token |-> Null]

Succeeded(token) ==
    [success |-> TRUE, error |-> Null, member |-> TRUE,
     token |-> OrElse(token, Some("sdk-auth-success"))]

\* waitForMemberstack's rejection
SdkNotAvailable == JsError("Memberstack SDK not available")

\* error instanceof Error ? error.message : fallback
messageOrElse(error, fallback) ==
    IF error.shape = "Error" THEN JsString(error.message[1])
    ELSE JsString(fallback)

\* typeof result.error === 'string' ? result.error
\*     : result.error?.message || fallback
normalized(error, fallback) ==
    IF error.shape = "string" THEN error
    ELSE IF Truthy(messageOf(error)) THEN JsString(messageOf(error)[1])
    ELSE JsString(fallback)

\* loginWithEmail: the catch block
loginCaught(error) ==
    LET message == messageOf(error)
        final == Failed(messageOrElse(error, "Login failed. Please try again."))
    IN  IF ~IsObject(error) THEN final
        ELSE IF KeyCount(error) = 0
        THEN Failed(JsString(
                 "Invalid email or password. Please check your credentials."))
        ELSE IF Truthy(message)
        THEN IF \/ includes(message[1], "invalid")
                \/ includes(message[1], "password")
                \/ includes(message[1], "email")
             THEN Failed(JsString("Invalid email or password"))
             ELSE Failed(JsString(message[1]))
        ELSE IF error.code \in {Some("INVALID_CREDENTIALS"),
                                Some("invalid-credentials")}
        THEN Failed(JsString("Invalid email or password"))
        ELSE final

\* signupWithEmail: the catch block
signupCaught(error) ==
    LET message == messageOf(error)
        final == Failed(messageOrElse(error,
                                      "Signup failed. Please try again."))
    IN  IF ~IsObject(error) THEN final
        ELSE IF KeyCount(error) = 0
        THEN Failed(JsString("Signup failed. This email may already be registered, or please check your details and try again."))
        ELSE IF Truthy(message)
        THEN IF \/ includes(message[1], "already")
                \/ includes(message[1], "exists")
             THEN Failed(JsString(
                      "This email is already registered. Please log in instead."))
             ELSE Failed(JsString(message[1]))
        ELSE final

\* The answer of one SDK call: it throws error, or it returns a result with
\* an error (<<>> when it has none), with or without data.member and with
\* or without data.tokens.accessToken.
Thrown(o) == o.how = "throws"

HasError(o) == o.error # Null /\ JsTruthy(o.error[1])

loginWithEmail(sdkReady, answers) ==
    IF ~sdkReady THEN loginCaught(SdkNotAvailable)
    ELSE LET result == answers[1]
         IN  IF Thrown(result) THEN loginCaught(result.error[1])
             ELSE IF HasError(result)
             THEN Failed(normalized(result.error[1],
                                    "Invalid email or password"))
             ELSE IF result.member THEN Succeeded(result.token)
             ELSE Failed(JsString("Invalid email or password"))

signupWithEmail(sdkReady, answers) ==
    IF ~sdkReady THEN signupCaught(SdkNotAvailable)
    ELSE LET result == answers[1]
         IN  IF Thrown(result) THEN signupCaught(result.error[1])
             ELSE IF HasError(result)
             THEN Failed(normalized(result.error[1], "Signup failed"))
             ELSE IF result.member THEN Succeeded(result.token)
             ELSE Failed(JsString("Signup failed. Please try again."))

\* loginWithGoogle: the attempt to sign up after the login gave no member
googleSignup(signupResult) ==
    IF Thrown(signupResult)
    THEN Failed(JsString("Google authentication failed. Make sure popups are allowed and try again."))
    ELSE IF signupResult.member THEN Succeeded(signupResult.token)
    ELSE IF HasError(signupResult) THEN Failed(signupResult.error[1])
    ELSE Failed(JsString("Google authentication failed. Please try again."))

loginWithGoogle(sdkReady, answers) ==
    IF ~sdkReady
    THEN Failed(JsString("Memberstack SDK not loaded. Please refresh the page and try again."))
    ELSE LET loginResult == answers[1]
         IN  IF ~Thrown(loginResult) /\ loginResult.member
             THEN Succeeded(loginResult.token)
             ELSE googleSignup(answers[2])

Done == [success |-> TRUE, error |-> Null, member |-> FALSE, token |-> Null]

\* sendPasswordResetEmail and resetPassword differ in the fallback only.
resetWith(sdkReady, answers, fallback) ==
    IF ~sdkReady THEN Failed(messageOrElse(SdkNotAvailable, fallback))
    ELSE LET result == answers[1]
         IN  IF Thrown(result)
             THEN Failed(messageOrElse(result.error[1], fallback))
             ELSE IF HasError(result) THEN Failed(result.error[1])
             ELSE Done

sendPasswordResetEmail(sdkReady, answers) ==
    resetWith(sdkReady, answers, "Failed to send reset email")

resetPassword(sdkReady, answers) ==
    resetWith(sdkReady, answers, "Failed to reset password")

BridgeFunctions ==
    {"loginWithEmail", "signupWithEmail", "loginWithGoogle",
     "sendPasswordResetEmail", "resetPassword"}

bridge(fn, sdkReady, answers) ==
    CASE fn = "loginWithEmail" -> loginWithEmail(sdkReady, answers)
      [] fn = "signupWithEmail" -> signupWithEmail(sdkReady, answers)
      [] fn = "loginWithGoogle" -> loginWithGoogle(sdkReady, answers)
      [] fn = "sendPasswordResetEmail" ->
             sendPasswordResetEmail(sdkReady, answers)
      [] fn = "resetPassword" -> resetPassword(sdkReady, answers)

\* How many SDK calls the function makes after the answers so far.
callsLeft(fn, sdkReady, answers) ==
    IF ~sdkReady THEN 0
    ELSE IF Len(answers) = 0 THEN 1
    ELSE IF /\ fn = "loginWithGoogle"
            /\ Len(answers) = 1
            /\ ~(~Thrown(answers[1]) /\ answers[1].member)
         THEN 1
         ELSE 0

(***************************************************************************)
(* The bridge on its own: the SDK is loaded or not, answers the calls the  *)
(* function makes, and the function returns.                               *)
(***************************************************************************)
\* The errors of the vendor: a string, objects with a message, the empty
\* object, an object with a code only, Errors.
VendorErrors ==
    { JsString("Invalid credentials"),
      JsObject(Some("invalid password"), Null),
      JsObject(Some("Member already exists"), Null),
      JsObject(Some("Service unavailable"), Some("503")),
      JsObject(Null, Null),
      JsObject(Null, Some("INVALID_CREDENTIALS")),
      JsObject(Null, Some("rate-limited")),
      JsError("popup closed by user"),
      JsError("") }

SdkAnswers ==
    { [how |-> "throws", error |-> Some(e), member |-> FALSE, token |-> Null] :
          e \in VendorErrors }
    \cup { [how |-> "returns", error |-> Some(e), member |-> FALSE,
            token |-> Null] : e \in VendorErrors \cup {JsString("")} }
    \cup { [how |-> "returns", error |-> Null, member |-> m, token |-> t] :
              m \in BOOLEAN, t \in {Null, Some("tok")} }

InitBridge ==
    /\ arg \in [fn : BridgeFunctions, sdkReady : BOOLEAN, answers : {<<>>}]
    /\ res = NotRun
    /\ modal = ModalClosed
    /\ ServerIdle

SdkAnswer(o) ==
    /\ res = NotRun
    /\ callsLeft(arg.fn, arg.sdkReady, arg.answers) > 0
    /\ arg' = [arg EXCEPT !.answers = Append(@, o)]
    /\ UNCHANGED <<res, modal, mainVars>>

BridgeReturns ==
    /\ res = NotRun
    /\ callsLeft(arg.fn, arg.sdkReady, arg.answers) = 0
    /\ res' = <<bridge(arg.fn, arg.sdkReady, arg.answers)>>
    /\ UNCHANGED <<arg, modal, mainVars>>

NextBridge ==
    \/ \E o \in SdkAnswers : SdkAnswer(o)
    \/ BridgeReturns

SpecBridge == InitBridge /\ [][NextBridge]_vars

(***************************************************************************)
(* Claim about the bridge (checked under SpecBridge).                      *)
(***************************************************************************)
BridgeReturned == Len(res) = 1

\* The value is a string that is not empty.
ReadableString(v) ==
    /\ v # Null
    /\ v[1].shape = "string"
    /\ v[1].message # Some("")

\* C25: whichever of the five bridge functions is called and whichever
\* error the SDK returns in result.error or throws (a string, an object
\* with a message, an empty object, an Error), a result with success = false
\* carries an error that is a string and is not empty.
C25_FailureCarriesMessage ==
    (BridgeReturned /\ ~res[1].success) => ReadableString(res[1].error)

\* loginWithGoogle has returned after the SDK's signup call returned an
\* empty object as its error.
C25_Witness ==
    /\ BridgeReturned
    /\ arg.fn = "loginWithGoogle"
    /\ Len(arg.answers) = 2
    /\ arg.answers[2].how = "returns"
    /\ arg.answers[2].error = Some(JsObject(Null, Null))
    /\ ~res[1].success

\* The failures of loginWithEmail and signupWithEmail all carry a string
\* that is not empty.
EmailBridgeNormalizes ==
    ( /\ BridgeReturned
      /\ arg.fn \in {"loginWithEmail", "signupWithEmail"}
      /\ ~res[1].success )
    => ReadableString(res[1].error)

(***************************************************************************)
(* The auth modal.  A run is one call of handleLogin, handleSignup or      *)
(* handleGoogleAuth; pc says which awaited call the run is waiting for,    *)
(* calls lists the calls of the run that have returned and whether they    *)
(* succeeded, and redirected says that purchasePlan has resolved, after    *)
(* which the vendor takes the page to the checkout.  One run is in flight  *)
(* at a time.                                                              *)
(***************************************************************************)
MaxRuns == 2

\* selectPlan: no plan, the free plan (priceId null), a plan with a price
SelectedPlans ==
    { Null,
      Some([id |-> FreeId, priceId |-> Null]),
      Some([id |-> EssentialsId,
            priceId |-> Some("prc_essentials-monthly-x7wv07nc")]) }

\* The bridge function each flow calls.
bridgeOf(flow) ==
    CASE flow = "login" -> "loginWithEmail"
      [] flow = "signup" -> "signupWithEmail"
      [] flow = "google" -> "loginWithGoogle"

\* The answers of the SDK to the calls of one run of a bridge function.
AnswerSeqs(fn) ==
    {<<o>> : o \in {x \in SdkAnswers : callsLeft(fn, TRUE, <<x>>) = 0}}
    \cup {<<o1, o2>> : o1 \in {x \in SdkAnswers :
                                  callsLeft(fn, TRUE, <<x>>) > 0},
                       o2 \in SdkAnswers}

\* What the bridge function of a flow may return: handleGoogleAuth has
\* checked that the SDK is loaded, the other two wait for it.
BridgeResults(flow) ==
    {bridge(bridgeOf(flow), TRUE, a) : a \in AnswerSeqs(bridgeOf(flow))}
    \cup (IF flow = "google" THEN {}
          ELSE {bridge(bridgeOf(flow), FALSE, <<>>)})

\* msResult.error || fallback
errorOr(error, fallback) ==
    IF error # Null /\ JsTruthy(error[1]) THEN error[1]
    ELSE JsString(fallback)

\* The fallback of each flow for a bridge failure without error.
bridgeFallback(flow) ==
    CASE flow = "login" -> "Invalid email or password"
      [] flow = "signup" -> "Failed to create account"
      [] flow = "google" -> "Google authentication failed"

\* The message of each flow's catch block.
caughtMessage(flow) ==
    IF flow = "google"
    THEN "An error occurred during Google authentication. Make sure popups are allowed."
    ELSE "An error occurred. Please try again."

\* setError(message); setIsLoading(false): the run is over
endWithError(m, error) ==
    [m EXCEPT !.error = error, !.isLoading = FALSE, !.pc = "idle"]

\* onClose(), and the effect that resets the form once isOpen is false
endClosed(m) ==
    [m EXCEPT !.isOpen = FALSE, !.isLoading = FALSE, !.error = JsString(""),
              !.selectedPlan = Null, !.pc = "idle"]

\* The handler has set the error to '' and isLoading to true and awaits the
\* bridge function.
started(m, flow) ==
    [m EXCEPT !.error = JsString(""), !.isLoading = TRUE, !.pc = "sdk",
              !.flow = flow, !.calls = <<>>, !.redirected = FALSE,
              !.runs = @ + 1]

MayStart ==
    /\ modal.isOpen
    /\ modal.pc = "idle"
    /\ ~modal.redirected
    /\ modal.runs < MaxRuns

\* The user opens the modal.
OpenModal ==
    /\ ~modal.isOpen
    /\ modal.pc = "idle"
    /\ ~modal.redirected
    /\ modal.runs < MaxRuns
    /\ modal' = [modal EXCEPT !.isOpen = TRUE, !.error = JsString("")]
    /\ UNCHANGED <<arg, res, mainVars>>

\* handleLogin up to await loginWithEmail(email, password)
HandleLogin ==
    /\ MayStart
    /\ ~modal.isLoading
    /\ modal' = started(modal, "login")
    /\ UNCHANGED <<arg, res, mainVars>>

\* handleSignup up to await signupWithEmail(...)
HandleSignup(isPasswordValid, plan) ==
    /\ MayStart
    /\ ~modal.isLoading
    /\ modal' =
         IF ~isPasswordValid
         THEN [modal EXCEPT
                 !.error = JsString("Please meet all password requirements"),
                 !.selectedPlan = plan, !.flow = "signup", !.calls = <<>>,
                 !.runs = @ + 1]
         ELSE [started(modal, "signup") EXCEPT !.selectedPlan = plan]
    /\ UNCHANGED <<arg, res, mainVars>>

\* handleGoogleAuth up to await loginWithGoogle()
HandleGoogleAuth(sdkLoaded) ==
    /\ MayStart
    /\ modal' =
         IF ~sdkLoaded
         THEN [endWithError(modal, JsString("Authentication service is loading. Please wait a moment and try again."))
                 EXCEPT !.flow = "google", !.calls = <<>>, !.runs = @ + 1]
         ELSE started(modal, "google")
    /\ UNCHANGED <<arg, res, mainVars>>

\* The bridge function returns msResult.
SdkReturns ==
    /\ modal.pc = "sdk"
    /\ \E msResult \in BridgeResults(modal.flow) :
       LET m == [modal EXCEPT !.calls =
                    Append(@, [call |-> "sdk", ok |-> msResult.success])]
       IN  modal' =
             IF ~msResult.success
             THEN endWithError(m, errorOr(msResult.error,
                                          bridgeFallback(modal.flow)))
             ELSE IF modal.flow = "google" /\ ~msResult.member
             THEN endWithError(m, JsString("Failed to get user information"))
             ELSE [m EXCEPT !.pc = "session"]
    /\ UNCHANGED <<arg, res, mainVars>>

\* login(...) or signup(...) of the auth context settles: it resolves to
\* true or to false, or rejects.
SessionReturns(outcome) ==
    /\ modal.pc = "session"
    /\ LET m == [modal EXCEPT !.calls =
                    Append(@, [call |-> "session", ok |-> outcome = "true"])]
       IN  modal' =
             IF outcome = "throws"
             THEN endWithError(m, JsString(caughtMessage(modal.flow)))
             ELSE IF outcome = "false"
             THEN endWithError(m, JsString("Failed to create session"))
             ELSE IF /\ modal.flow = "signup"
                     /\ modal.selectedPlan # Null
                     /\ Truthy(modal.selectedPlan[1].priceId)
             THEN [m EXCEPT !.pc = "checkout"]
             ELSE endClosed(m)
    /\ UNCHANGED <<arg, res, mainVars>>

\* purchasePlan(selectedPlan.priceId) settles.
CheckoutReturns(resolved) ==
    /\ modal.pc = "checkout"
    /\ LET m == [modal EXCEPT !.calls =
                    Append(@, [call |-> "checkout", ok |-> resolved])]
       IN  modal' =
             IF resolved
             THEN [m EXCEPT !.redirected = TRUE, !.isLoading = FALSE,
                            !.pc = "idle"]
             ELSE endClosed(m)
    /\ UNCHANGED <<arg, res, mainVars>>

InitModal ==
    /\ arg = <<>>
    /\ res = NotRun
    /\ modal = ModalClosed
    /\ ServerIdle

NextModal ==
    \/ OpenModal
    \/ HandleLogin
    \/ \E isPasswordValid \in BOOLEAN, plan \in SelectedPlans :
          HandleSignup(isPasswordValid, plan)
    \/ \E sdkLoaded \in BOOLEAN : HandleGoogleAuth(sdkLoaded)
    \/ SdkReturns
    \/ \E outcome \in {"true", "false", "throws"} : SessionReturns(outcome)
    \/ \E resolved \in BOOLEAN : CheckoutReturns(resolved)

SpecModal == InitModal /\ [][NextModal]_vars

(***************************************************************************)
(* Claim about the auth modal (checked under SpecModal).                   *)
(***************************************************************************)
\* The step is the one in which a run of a flow ends.
RunEnds ==
    /\ modal'.pc = "idle"
    /\ modal.pc # "idle" \/ modal'.runs = modal.runs + 1

Returned(m, call, ok) ==
    \E i \in 1..Len(m.calls) : m.calls[i] = [call |-> call, ok |-> ok]

EndsAuthenticated(m) ==
    Returned(m, "session", TRUE) /\ ~m.isOpen /\ ~m.redirected

EndsAtCheckout(m) ==
    Returned(m, "session", TRUE) /\ m.redirected

EndsAnonymous(m) ==
    /\ ~Returned(m, "session", TRUE)
    /\ ~m.redirected
    /\ m.isOpen
    /\ m.error.shape = "string"
    /\ m.error.message # Some("")

\* The calls of a run are made in order: the session route after the bridge
\* function returned success, the checkout after the session route
\* succeeded and for a plan that has a price id.
CallsInOrder ==
    /\ modal'.pc = "session" =>
          modal'.calls = <<[call |-> "sdk", ok |-> TRUE]>>
    /\ modal'.pc = "checkout" =>
          /\ modal'.calls = <<[call |-> "sdk", ok |-> TRUE],
                              [call |-> "session", ok |-> TRUE]>>
          /\ modal'.selectedPlan # Null
          /\ Truthy(modal'.selectedPlan[1].priceId)

EndsWell ==
    RunEnds =>
        /\ ~modal'.isLoading
        /\ Cardinality({k \in 1..3 :
              \/ k = 1 /\ EndsAuthenticated(modal')
              \/ k = 2 /\ EndsAtCheckout(modal')
              \/ k = 3 /\ EndsAnonymous(modal')}) = 1

\* C26: in the login, signup and Google flows of the auth modal the
\* session route is called only after the vendor SDK call returned success
\* and the checkout is started only after the session route succeeded and
\* only for a plan with a price id; every run ends with isLoading = false
\* and in exactly one of: authenticated with the modal closed, redirected to
\* the checkout, or anonymous with an error shown that is a string and not
\* empty, the modal open for another try.
C26_FlowsEndWell ==
    [][CallsInOrder /\ EndsWell]_vars

\* A run of the Google flow has ended with an error that is not a string.
C26_Witness ==
    /\ modal.flow = "google"
    /\ modal.pc = "idle"
    /\ modal.calls = <<[call |-> "sdk", ok |-> FALSE]>>
    /\ modal.error.shape = "object"
    /\ ~modal.isLoading

\* The runs of the login and signup flows do end as the claim says, and the
\* calls of every flow are made in order.
EmailFlowsEndWell ==
    [][CallsInOrder /\ (modal'.flow # "google" => EndsWell)]_vars

(***************************************************************************)
(* Claim about where a paid entitlement comes from (checked under          *)
(* SpecEntry).                                                             *)
(***************************************************************************)
\* The tier the subscription endpoint gives a session with this bestPlanId.
tierOf(bestPlanId) == getPlanDetails(bestPlanId).tier

\* The member holds an ACTIVE plan connection that resolves to the tier.
HoldsActivePlanOf(member, tier) ==
    \E i \in 1..Len(member.planConnections) :
        /\ connectionIsActive(member.planConnections[i])
        /\ tierOf(getBestPlanId(<<member.planConnections[i].planId>>)) = tier

\* A vendor lookup of the request returned a member who holds an ACTIVE
\* plan connection of the tier.
VendorGaveTier(calls, tier) ==
    \E i \in 1..Len(calls) :
        /\ calls[i].member # Null
        /\ HoldsActivePlanOf(MemberOf(calls[i].member[1]), tier)

\* The step stores the session of a request of the route.
StoresSessionOf(route) ==
    /\ req["r1"].pc \in {"cs_new", "cs_set"}
    /\ req["r1"].route = route
    /\ CsSet("r1")

EntitledByVendor ==
    LET tier == tierOf(req["r1"].user[1].bestPlanId)
    IN  tier >= 1 => VendorGaveTier(lookups, tier)

\* C27: a session whose bestPlanId the subscription endpoint resolves
\* to a paid tier (tier >= 1) is created, by the login route and by the
\* signup route, only for a request one of whose vendor lookups returned a
\* member holding an ACTIVE plan connection that resolves to that tier; the
\* fields of the request body alone never give a paid tier.
C27_PaidOnlyFromVendor ==
    [][\A route \in {"login", "signup"} :
          StoresSessionOf(route) => EntitledByVendor]_vars

\* The signup route has stored a session of a paid tier for a request whose
\* vendor lookup returned nobody.
C27_Witness ==
    /\ last.route = "signup"
    /\ last.status = 200
    /\ tierOf(last.user[1].bestPlanId) >= 1
    /\ lookups = <<byEmailLookup(last.user[1].email, Null)>>
    /\ cookie # Null
    /\ cookie[1] \in DOMAIN store
    /\ tierOf(recordOf(store, cookie[1]).bestPlanId) >= 1

\* The login route does keep to it.
LoginPaidOnlyFromVendor ==
    [][StoresSessionOf("login") => EntitledByVendor]_vars

(***************************************************************************)
(* Claim about the identity's way through the session (checked under       *)
(* SpecAuth).                                                              *)
(***************************************************************************)
\* The step answers a request to the current-session endpoint with a user,
\* and the response before it was that of the login or signup that created
\* the session.
MeAfterCreate ==
    /\ last.route \in {"login", "signup"}
    /\ last.status = 200
    /\ last'.route = "me"
    /\ last'.status = 200

\* C28: after createSession(u), getCurrentUser on a following request
\* that carries the cookie which was set returns a user equal to u in every
\* field (id, email, firstName, lastName, activePlans, bestPlanId,
\* memberstackId): the current-session endpoint returns the user object the
\* login or signup response held.
C28_UserRoundTrip ==
    [][MeAfterCreate => last'.user = last.user]_vars

\* The current-session endpoint has answered with a user whose id is the
\* session's identifier, for a session of the member mem_ann.
C28_Witness ==
    /\ last.route = "me"
    /\ last.status = 200
    /\ cookie # Null
    /\ last.user[1].id = cookie[1]
    /\ last.user[1].memberstackId = "mem_ann"
    /\ last.user[1].id # last.user[1].memberstackId

\* Every field but id does come back, and id is the session's identifier.
UserRoundTripButId ==
    [][MeAfterCreate =>
          /\ last'.user[1] = [last.user[1] EXCEPT !.id = last'.user[1].id]
          /\ last'.user[1].id = last.sessionId[1]]_vars

(***************************************************************************)
(* The report pages.  arg is what useAuth() gives the page (isAuthenticated *)
(* and the user, here its bestPlanId), res the section request the page    *)
(* sent last: the page, the section and the blur parameter.                *)
(***************************************************************************)
ReportPages == {"suburb", "property"}

PageSections == {"msp", "info", "image"}

\* The bestPlanId values a session can hold: null, a resolver result
\* (canonical or passed through), or the plan of a signup body.
PageBestPlanIds ==
    {Null} \cup {Some(s) : s \in (PlanStrings \ {""})
                                    \cup {"pln_starter", "basic-portfolio"}}

\* useAuth(): nobody is logged in, or a user is.
AuthStates ==
    {[isAuthenticated |-> FALSE, user |-> Null]}
    \cup {[isAuthenticated |-> TRUE, user |-> Some([bestPlanId |-> b])] :
             b \in PageBestPlanIds}

\* isAuthenticated && user?.bestPlanId && !user.bestPlanId.includes('basic')
hasFullAccess(auth) ==
    /\ auth.isAuthenticated
    /\ auth.user # Null
    /\ Truthy(auth.user[1].bestPlanId)
    /\ ~includes(auth.user[1].bestPlanId[1], "basic")

\* const blur = hasFullAccess ? 'false' : 'true'
pageBlur(auth) == IF hasFullAccess(auth) THEN "false" ELSE "true"

InitPage ==
    /\ arg \in AuthStates
    /\ res = NotRun
    /\ modal = ModalClosed
    /\ ServerIdle

\* The auth context changes (login, logout, refresh): the page renders anew.
AuthChanges(auth) ==
    /\ auth # arg
    /\ arg' = auth
    /\ res' = NotRun
    /\ UNCHANGED <<modal, mainVars>>

\* fetchSectionData(section) of a report page
FetchSection(page, section) ==
    /\ res' = <<[page |-> page, section |-> section, blur |-> pageBlur(arg)]>>
    /\ UNCHANGED <<arg, modal, mainVars>>

NextPage ==
    \/ \E auth \in AuthStates : AuthChanges(auth)
    \/ \E page \in ReportPages, section \in PageSections :
          FetchSection(page, section)

SpecPage == InitPage /\ [][NextPage]_vars

(***************************************************************************)
(* Claim about the report pages' access decision (checked under SpecPage). *)
(***************************************************************************)
SectionFetched == Len(res) = 1

\* The tier the subscription endpoint's plan lookup gives the page's user.
PageTier == tierOf(arg.user[1].bestPlanId)

\* C29: for every user object a report page asks for blur = 'false'
\* (hasFullAccess) if and only if the subscription endpoint's plan lookup
\* for the user's bestPlanId gives a tier >= 1; a bestPlanId that the lookup
\* maps to the free tier never gets blur = 'false'.
C29_AccessAgreesWithTier ==
    (SectionFetched /\ arg.isAuthenticated)
    => (res[1].blur = "false" <=> PageTier >= 1)

\* A page asked for blur = 'false' for a user whose bestPlanId the plan
\* lookup maps to the free tier.
C29_Witness ==
    /\ SectionFetched
    /\ arg.isAuthenticated
    /\ res[1].blur = "false"
    /\ PageTier = 0

\* For the four catalog ids and for null the two do agree, and nobody who is
\* not logged in gets blur = 'false'.
AccessAgreesOnCatalog ==
    SectionFetched
    => /\ ~arg.isAuthenticated => res[1].blur = "true"
       /\ ( /\ arg.isAuthenticated
            /\ \/ arg.user[1].bestPlanId = Null
               \/ arg.user[1].bestPlanId[1] \in PlanIds )
          => (res[1].blur = "false" <=> PageTier >= 1)

(***************************************************************************)
(* Claim about the orders endpoint (checked under SpecRead).               *)
(***************************************************************************)
\* The step answers a request to the orders endpoint that found its session.
OrdersAnswered(p) ==
    /\ req[p].route = "orders"
    /\ \E upstream \in Upstreams : GsRefresh(p, upstream)

\* C30: the orders endpoint asks the upstream backend for the orders
\* of the caller's own session only: the email of its order query is the
\* session's userEmail whatever the query string of the request holds, so
\* requests that differ in the email parameter only ask the same.
C30_OwnOrdersOnly ==
    [][\A p \in Procs :
          OrdersAnswered(p) =>
             /\ Len(userOrders') = Len(userOrders) + 1
             /\ userOrders'[Len(userOrders')].email
                   = Some(req[p].session[1].userEmail)
             /\ userOrders'[Len(userOrders')]
                   = ordersQuery([req[p].query[1] EXCEPT !.email = Null],
                                 userOf(req[p].session[1]))]_vars

\* The orders endpoint answered the session of ann@x.io after asking the
\* upstream for the orders of bob@x.io.
C30_Witness ==
    /\ last.route = "orders"
    /\ last.status = 200
    /\ last.user[1].email = "ann@x.io"
    /\ Len(userOrders) > 0
    /\ userOrders[Len(userOrders)].email = Some("bob@x.io")

\* Without an email parameter the endpoint does ask for the session's email,
\* and the subscription endpoint always does.
OwnOrdersWithoutParameter ==
    [][\A p \in Procs :
          ( /\ req[p].route \in {"orders", "subscription"}
            /\ \E upstream \in Upstreams : GsRefresh(p, upstream)
            /\ req[p].route = "orders" => ~Truthy(req[p].query[1].email) )
          => /\ Len(userOrders') = Len(userOrders) + 1
             /\ userOrders'[Len(userOrders')].email
                   = Some(req[p].session[1].userEmail)]_vars

====
